---- MODULE Spec2Model ----
(***************************************************************************)
(* Model of the cyclic CiA-402 controller of motor_api.c                   *)
(* (motor_api_run_once, set_cmd_locked, motor_api_create) and of the       *)
(* standard adapter's makeControl (motor_adapter.cpp).                     *)
(*                                                                         *)
(* Status and control words are written in decimal:                        *)
(*   0x06 = 6, 0x07 = 7, 0x0F = 15, 0x80 = 128, 0x6F = 111,                *)
(*   0x21 = 33, 0x23 = 35, 0x27 = 39, 0x40 = 64, 0x08 = 8.                 *)
(***************************************************************************)
EXTENDS Integers, Naturals, Sequences, FiniteSets, TLC

(***************************************************************************)
(* Bounds of the model.                                                    *)
(***************************************************************************)
\* actual positions reported by a drive are drawn from -1 .. MaxPos-1
MaxPos == 1
\* the monotonic clock advances in multiples of ClockStep nanoseconds
ClockStep == 250000000
\* the clock is followed up to MaxClockSteps * ClockStep
MaxClockSteps == 4
\* number of ticks that advance a target by a non-zero delta
MaxMoves == 1
\* number of high-byte patterns of the status word in the wide status set
MaxHigh == 0
\* number of SIGINT deliveries followed in the host-loop specification
MaxSignals == 1

\* calls of EyouMotorAdapter::makeControl with an unchanged status word
MaxDelayCount == 16

\* cycles of the host loop over the motors that are followed
MaxLoopCycles == 8

\* length of the adapter registry up to which single adapters are registered,
\* and up to which MotorApi objects are constructed
MaxSingles == 3

MaxAdapters == 8

(***************************************************************************)
(* Program constants.                                                      *)
(***************************************************************************)
MA_MAX_DELTA_PER_CYCLE == 400000
MA_MODE_PROFILE_POSITION == 1
MA_MODE_CSP == 8
BarrierDelayNs == 1000000000
WarmupCycles == 10
StepMin == 1
StepMax == 100000

\* EyouMotorAdapter::makeControl: calls answered with 0x0000 after a change of
\* the status word, and the count at which the fault reset is forced
StateChangeDelay == 5

FaultResetLimit == 10

\* ma_status_t
MA_OK == 0
MA_ERR_INIT == 1
MA_ERR_CONFIG == 2
MA_ERR_PARAM == 3
MA_ERR_RUNTIME == 4
MA_ERR_IO == 5

MA_MAX_SLAVES == 16

(***************************************************************************)
(* Bit helpers for the uint16_t status word.                               *)
(***************************************************************************)
\* x & 0x6F: bits 0..3, 5 and 6
Mask6F(x) == (x % 16) + 32 * ((x \div 32) % 4)

\* (x & bit) != 0 for a single-bit mask
HasBit(x, bit) == (x \div bit) % 2 = 1

(***************************************************************************)
(* Input sets.                                                             *)
(***************************************************************************)
\* status words a drive reports in the multi-axis specification
StatusSet == {64, 39}
\* status words of the single-axis specification: every low byte, with and
\* without bits 9 and 12 in the high byte
StatusWide == {lo + 256 * 18 * hi : lo \in 0..255, hi \in 0..MaxHigh}
PosSet == {k - 1 : k \in 0..MaxPos}
\* numbers of axes a controller of the multi-axis specification is created with
SlaveCounts == {1, 2}
\* time between two readings of the clock in successive ticks, and between
\* the two readings of an arming tick
ClockAdv == {0, ClockStep, 2 * ClockStep}
ClockGap == {0, 4 * ClockStep}
\* arguments (run, dir, step) of the set_command calls of the multi-axis
\* specification: forward and reverse at step 1000000, and the stop of POST /stop
CmdInputs == {<<TRUE, 1, 1000000>>, <<TRUE, -1, 1000000>>, <<FALSE, 0, 0>>}
\* arguments of set_command in the command-record specification: directions
\* and steps inside, on and beyond the limits, up to INT_MAX
DirArgs == {-2, -1, 0, 1, 2}
StepArgs == {-1, 0, 1, 100000, 100001, 2147483647}
CmdArgs == {<<r, d, st>> : r \in BOOLEAN, d \in DirArgs, st \in StepArgs}
\* requests a client sends to the HTTP service: GET /, GET /status, GET /diag,
\* POST /control forward and reverse, POST /stop, POST /shutdown, and anything
\* answered without a look at the handle (404, 405, 400, empty recv)
HttpRequests == {"root", "status", "diag", "control_fwd", "control_rev",
                 "stop", "shutdown", "other"}
\* requests whose handling reads or writes the handle
HandleRequests == HttpRequests \ {"root", "other"}
\* numbers of motors init_auto detects, and the status words get_status reads,
\* in the host-loop specification
HostMotors == {1, 2}
HostStatusSet == {64, 33, 35, 39, 8}

VARIABLES
    slave_count,       \* h->slave_count
    cmd,               \* h->cmd_run, h->cmd_dir, h->cmd_step
    servo_enabled,     \* h->servo_enabled[i]
    csp_warmup,        \* h->csp_warmup[i]
    csp_target,        \* h->csp_target[i]
    seen_enabled,      \* h->seen_enabled[i]
    last_actual_pos,   \* h->last_actual_pos[i]
    barrier_armed,     \* h->barrier_armed
    barrier_start_ns,  \* h->barrier_start_ns
    barrier_delay_ns,  \* h->barrier_delay_ns
    motion_started,    \* h->motion_started
    pd_status,         \* process image: 0x6041 of axis i
    pd_actual,         \* process image: 0x6064 of axis i
    pd_control,        \* process image: 0x6040 of axis i
    pd_mode,           \* process image: 0x6060 of axis i
    pd_target,         \* process image: 0x607A of axis i
    clock,             \* last value monotonic_ns() returned to the barrier
    obs,               \* what the last tick read and wrote
    mon,               \* history kept across ticks
    scn,               \* progress of the cold-start scenario
    mc,                \* makeControl called on the status word of this cycle
    cs,                \* cmd_mutex and the threads inside set_cmd_locked and
                       \* inside the locked copy of the command
    net,               \* handle lifetime, HTTP service thread and its caller
    host,              \* MotorApi object and the host loop of test.cpp
    api,               \* MotorApi object as its axis-keyed operations see it
    reg,               \* MotorAdapterManager::adapters_ and the last lookup
    eyou,              \* static locals of EyouMotorAdapter::makeControl
    xml,               \* SimpleXmlParser and the bootstrap of MotorApi
    eni                \* motor_api_read_eni and motor_api_create

vars == <<slave_count, cmd, servo_enabled, csp_warmup, csp_target,
          seen_enabled, last_actual_pos, barrier_armed, barrier_start_ns,
          barrier_delay_ns, motion_started, pd_status, pd_actual,
          pd_control, pd_mode, pd_target, clock, obs, mon, scn, mc,
          cs, net, host, api, reg, eyou, xml, eni>>

\* the C++ object layer and the ENI bootstrap of both layers
lib == <<api, reg, eyou, xml, eni>>

\* controller fields of the handle other than the command
ctl == <<slave_count, servo_enabled, csp_warmup, csp_target, seen_enabled,
         last_actual_pos, barrier_armed, barrier_start_ns, barrier_delay_ns,
         motion_started>>

\* the process image
pd == <<pd_status, pd_actual, pd_control, pd_mode, pd_target>>

\* clock and observation variables
hist == <<clock, obs, mon, scn, mc>>

Axes == 0 .. (slave_count - 1)

(***************************************************************************)
(* set_cmd_locked: the command stored for given arguments.                 *)
(***************************************************************************)
\* set_cmd_locked with the upper limit of step left out
set_cmd_locked_NoUpper(run, dir, step) ==
    LET s1 == IF step < StepMin THEN StepMin ELSE step
        d1 == IF dir # -1 /\ dir # 0 /\ dir # 1 THEN 0 ELSE dir
    IN  [run |-> run, dir |-> d1, step |-> s1]

set_cmd_locked(run, dir, step) ==
    LET s1 == IF step < StepMin THEN StepMin ELSE step
        s2 == IF s1 > StepMax THEN StepMax ELSE s1
        d1 == IF dir # -1 /\ dir # 0 /\ dir # 1 THEN 0 ELSE dir
    IN  [run |-> run, dir |-> d1, step |-> s2]

(***************************************************************************)
(* motor_api_run_once, per-axis part.                                      *)
(***************************************************************************)
\* the switch with 0x07 repeated for Switched on
ControlFor_SwitchedOnBug(status) ==
    LET s == Mask6F(status)
    IN  CASE s = 0  -> 6
          [] s = 64 -> 6
          [] s = 33 -> 7
          [] s = 35 -> 7
          [] s = 39 -> 15
          [] OTHER  -> 6

\* switch (status_i & 0x6F) of an axis that is not servo-enabled
ControlFor(status) ==
    LET s == Mask6F(status)
    IN  CASE s = 0  -> 6
          [] s = 64 -> 6
          [] s = 33 -> 7
          [] s = 35 -> 15
          [] s = 39 -> 15
          [] OTHER  -> 6

\* condition of the fault-reset pulse
FaultPulse(status) == HasBit(status, 64) /\ ~HasBit(status, 1)

\* the limit applied before a scaling of the delta instead of after it
ClampDelta_ScaledAfterLimit(c) ==
    LET d0 == IF c.run THEN c.dir * c.step ELSE 0
        d1 == IF d0 > MA_MAX_DELTA_PER_CYCLE THEN MA_MAX_DELTA_PER_CYCLE ELSE d0
        d2 == IF d1 < -MA_MAX_DELTA_PER_CYCLE THEN -MA_MAX_DELTA_PER_CYCLE ELSE d1
    IN  5 * d2

\* int delta = run ? dir * step : 0, limited to +-MA_MAX_DELTA_PER_CYCLE
ClampDelta(c) ==
    LET d0 == IF c.run THEN c.dir * c.step ELSE 0
        d1 == IF d0 > MA_MAX_DELTA_PER_CYCLE THEN MA_MAX_DELTA_PER_CYCLE ELSE d0
    IN  IF d1 < -MA_MAX_DELTA_PER_CYCLE THEN -MA_MAX_DELTA_PER_CYCLE ELSE d1

\* the main control word written before the pulse instead of after it
ControlWrites_PulseLast(st) ==
    IF FaultPulse(st) THEN <<ControlFor(st), 0, 128>> ELSE <<ControlFor(st)>>

\* EC_WRITE_U16 calls on the control word of a not yet enabled axis: the
\* pulse 0x0000, 0x0080 when the status asks for it, then the main word
ControlWrites(st) ==
    IF FaultPulse(st) THEN <<0, 128, ControlFor(st)>> ELSE <<ControlFor(st)>>

\* the enable branch without the seeding of the target at 0x27
EnableStep_NoSeed(i, st, ap) ==
    LET s == Mask6F(st)
    IN  [servo   |-> (s = 39),
         warmup  |-> IF s = 39 THEN WarmupCycles ELSE csp_warmup[i],
         target  |-> IF s = 33 THEN ap ELSE csp_target[i],
         last    |-> last_actual_pos[i],
         cw      |-> ControlWrites(st),
         tgt     |-> IF s = 33 THEN <<ap>> ELSE <<>>,
         mode    |-> <<MA_MODE_CSP>>,
         delta   |-> 0,
         moved   |-> FALSE]

\* branch !servo_enabled[i] of the axis loop: st is the status word and ap
\* the actual position in the process image
EnableStep(i, st, ap) ==
    LET s == Mask6F(st)
    IN  [servo   |-> (s = 39),
         warmup  |-> IF s = 39 THEN WarmupCycles ELSE csp_warmup[i],
         target  |-> IF s = 33 \/ s = 39 THEN ap ELSE csp_target[i],
         last    |-> last_actual_pos[i],
         cw      |-> ControlWrites(st),
         tgt     |-> IF s = 33 THEN <<ap>> ELSE <<>>,
         mode    |-> <<MA_MODE_CSP>>,
         delta   |-> 0,
         moved   |-> FALSE]

\* the hold branch writing the cached target instead of the actual position
HoldStep_Stale(i, ap) ==
    [servo   |-> TRUE,
     warmup  |-> csp_warmup[i],
     target  |-> csp_target[i],
     last    |-> ap,
     cw      |-> <<15>>,
     tgt     |-> <<csp_target[i]>>,
     mode    |-> <<MA_MODE_CSP>>,
     delta   |-> 0,
     moved   |-> FALSE]

\* branch servo_enabled[i] && !motion_started: hold at the actual position
HoldStep(i, ap) ==
    [servo   |-> TRUE,
     warmup  |-> csp_warmup[i],
     target  |-> ap,
     last    |-> ap,
     cw      |-> <<15>>,
     tgt     |-> <<ap>>,
     mode    |-> <<MA_MODE_CSP>>,
     delta   |-> 0,
     moved   |-> FALSE]

\* the run branch re-seeding the target from the actual position while the
\* command is stopped
RunStep_HoldActual(i, ap, c) ==
    LET delta == ClampDelta(c)
        warm  == csp_warmup[i] > 0
        t1    == IF warm \/ ~c.run THEN ap ELSE csp_target[i] + delta
    IN  [servo   |-> TRUE,
         warmup  |-> IF warm THEN csp_warmup[i] - 1 ELSE csp_warmup[i],
         target  |-> t1,
         last    |-> ap,
         cw      |-> <<15>>,
         tgt     |-> <<t1>>,
         mode    |-> <<MA_MODE_CSP>>,
         delta   |-> delta,
         moved   |-> ~warm]

\* branch servo_enabled[i] && motion_started: warmup, then advance the target
\* by the limited delta of the command c read under cmd_mutex
RunStep(i, ap, c) ==
    LET delta == ClampDelta(c)
        warm  == csp_warmup[i] > 0
        t1    == IF warm THEN ap ELSE csp_target[i] + delta
    IN  [servo   |-> TRUE,
         warmup  |-> IF warm THEN csp_warmup[i] - 1 ELSE csp_warmup[i],
         target  |-> t1,
         last    |-> ap,
         cw      |-> <<15>>,
         tgt     |-> <<t1>>,
         mode    |-> <<MA_MODE_CSP>>,
         delta   |-> delta,
         moved   |-> ~warm]

\* the loop body taking the enable branch again when the axis has left 0x27
AxisStep_Reenable(i, st, ap, c) ==
    IF ~servo_enabled[i] \/ Mask6F(st) # 39 THEN EnableStep(i, st, ap)
    ELSE IF ~motion_started THEN HoldStep(i, ap)
    ELSE RunStep(i, ap, c)

\* body of the for loop for axis i
AxisStep(i, st, ap, c) ==
    IF ~servo_enabled[i] THEN EnableStep(i, st, ap)
    ELSE IF ~motion_started THEN HoldStep(i, ap)
    ELSE RunStep(i, ap, c)

\* seen_enabled[i] tested against 0x0037, a value the masked word never takes
SeenEnabled_VoltageBit(st) == Mask6F(st) = 55

\* seen_enabled[i] as set at the top of the loop body
SeenEnabled(st) == Mask6F(st) = 39

\* all_enabled true as soon as one axis is seen enabled
AllEnabled_AnyAxis(seen) == \E i \in Axes : seen[i]

\* int all_enabled = 1; for (...) all_enabled = all_enabled && seen_enabled[i]
AllEnabled(seen) == \A i \in Axes : seen[i]

\* the arming condition without the run flag
ArmCondition_NoRun(run, all_enabled) ==
    ~motion_started /\ ~barrier_armed /\ all_enabled

\* if (!h->motion_started && run) { if (!h->barrier_armed && all_enabled)
ArmCondition(run, all_enabled) ==
    ~motion_started /\ run /\ ~barrier_armed /\ all_enabled

\* the delay test with > in place of >=
DelayElapsed_Strict(now, start) == now - start > barrier_delay_ns

\* if (now - h->barrier_start_ns >= h->barrier_delay_ns)
DelayElapsed(now, start) == now - start >= barrier_delay_ns

(***************************************************************************)
(* motor_api_run_once, barrier block.  seen is the seen_enabled array of   *)
(* this tick, run the run flag read under cmd_mutex, tArm the value        *)
(* monotonic_ns() returns when the barrier arms and gap the time that      *)
(* passes until the second call.                                           *)
(***************************************************************************)
\* the barrier block entered whenever run is set, motion started or not
Barrier_Rearm(seen, run, tArm, gap) ==
    LET all_enabled == AllEnabled(seen)
        arming == run /\ ~barrier_armed /\ all_enabled
        armed1 == IF arming THEN TRUE ELSE barrier_armed
        start1 == IF arming THEN tArm ELSE barrier_start_ns
        now    == IF arming THEN tArm + gap ELSE tArm
        fire   == run /\ armed1 /\ DelayElapsed(now, start1)
    IN  [all    |-> all_enabled,
         arming |-> arming,
         fire   |-> fire,
         armed  |-> IF fire THEN FALSE ELSE armed1,
         start  |-> start1,
         motion |-> IF fire THEN TRUE ELSE motion_started,
         now    |-> IF run /\ armed1 THEN now ELSE tArm]

Barrier(seen, run, tArm, gap) ==
    LET all_enabled == AllEnabled(seen)
        active == ~motion_started /\ run
        arming == ArmCondition(run, all_enabled)
        armed1 == IF arming THEN TRUE ELSE barrier_armed
        start1 == IF arming THEN tArm ELSE barrier_start_ns
        now    == IF arming THEN tArm + gap ELSE tArm
        fire   == active /\ armed1 /\ DelayElapsed(now, start1)
    IN  [all    |-> all_enabled,
         arming |-> arming,
         fire   |-> fire,
         armed  |-> IF fire THEN FALSE ELSE armed1,
         start  |-> start1,
         motion |-> IF fire THEN TRUE ELSE motion_started,
         now    |-> IF active /\ armed1 THEN now ELSE tArm]

(***************************************************************************)
(* StandardMotorAdapter::makeControl: control word and run_enable for a    *)
(* status word.                                                            *)
(***************************************************************************)
StandardMakeControl(status) ==
    LET ready_to_switch_on == HasBit(status, 1)
        switched_on        == HasBit(status, 2)
        operation_enabled  == HasBit(status, 4)
        fault              == HasBit(status, 8)
        quick_stop         == HasBit(status, 32)
        switch_on_disabled == HasBit(status, 64)
        warning            == HasBit(status, 128)
    IN  IF fault THEN [control |-> 128, run_enable |-> FALSE]
        ELSE IF warning THEN [control |-> 6, run_enable |-> TRUE]
        ELSE IF switch_on_disabled THEN [control |-> 6, run_enable |-> TRUE]
        ELSE IF quick_stop THEN [control |-> 2, run_enable |-> TRUE]
        ELSE IF ~ready_to_switch_on /\ ~switched_on
             THEN [control |-> 6, run_enable |-> TRUE]
        ELSE IF ready_to_switch_on /\ ~switched_on
             THEN [control |-> 7, run_enable |-> TRUE]
        ELSE IF ready_to_switch_on /\ switched_on /\ ~operation_enabled
             THEN [control |-> 15, run_enable |-> TRUE]
        ELSE IF operation_enabled THEN [control |-> 15, run_enable |-> TRUE]
        ELSE [control |-> 6, run_enable |-> TRUE]

(***************************************************************************)
(* The cold-start scenario: status words of axis 0 on the first ticks.     *)
(***************************************************************************)
ColdStart == <<64, 64, 33, 35, 39>>

ScnOff == [on |-> FALSE, n |-> 0, cw |-> <<>>]

ScnNext(st0, cw0) ==
    IF scn.on /\ scn.n < Len(ColdStart) /\ st0 = ColdStart[scn.n + 1]
    THEN [on |-> TRUE, n |-> scn.n + 1, cw |-> Append(scn.cw, cw0)]
    ELSE ScnOff

NoCall == [called |-> FALSE, status |-> 0, control |-> 0, run_enable |-> FALSE]

\* the command fields of a handle fresh from calloc
ZeroCmd == [run |-> FALSE, dir |-> 0, step |-> 0]

\* cmd_mutex after pthread_mutex_init, no thread inside set_cmd_locked or
\* inside a locked copy
CsInit ==
    [mutex  |-> "free",
     wpc    |-> "idle",
     wargs  |-> <<FALSE, 0, 0>>,
     wloc   |-> ZeroCmd,
     old    |-> ZeroCmd,
     called |-> FALSE,
     rpc    |-> "idle",
     got    |-> FALSE,
     snap   |-> ZeroCmd,
     full   |-> {}]

\* handle allocated, master requested, no HTTP thread created
NetInit ==
    [handle   |-> "alive",
     master   |-> "held",
     mutex    |-> "valid",
     stop     |-> 0,
     thread   |-> "none",
     req      |-> "none",
     caller   |-> "idle",
     stopped  |-> FALSE,
     pi_other |-> FALSE,
     uaf      |-> FALSE]

\* MotorApi as constructed, main of test.cpp about to call init_auto
HostInit ==
    [pc         |-> "init",
     run        |-> TRUE,
     master     |-> "none",
     handler    |-> FALSE,
     count      |-> 0,
     motors     |-> 0,
     m          |-> 0,
     control    |-> [k \in 0 .. 1 |-> 0],
     run_enable |-> [k \in 0 .. 1 |-> FALSE],
     status     |-> [k \in 0 .. 1 |-> 0],
     advanced   |-> [k \in 0 .. 1 |-> FALSE],
     signals    |-> 0,
     released   |-> FALSE]

\* axis indices the callers of MotorApi pass
ApiMotors == 0 .. 2

\* MotorApi as constructed: no slaves, no process image
ApiNoCall ==
    [op |-> "none", motor |-> 0, valid |-> FALSE, ret |-> 0, str |-> "",
     stores |-> 0, aborted |-> FALSE]

ApiInit ==
    [stage   |-> "new",
     count   |-> 0,
     pd_ok   |-> FALSE,
     adapter |-> [k \in ApiMotors |-> "none"],
     rx      |-> [k \in ApiMotors |-> [mode |-> 0, control |-> 0, target |-> 0]],
     tx      |-> [k \in ApiMotors |-> [status |-> 0, actual |-> 0]],
     call    |-> ApiNoCall]

\* the singleton MotorAdapterManager before any registration
RegNoQuery == [called |-> FALSE, vendor_id |-> 0, product_code |-> 0, found |-> 0]

EyouNoCall ==
    [called |-> FALSE, status |-> 0, run_in |-> FALSE, control |-> 0,
     run_enable |-> FALSE, attempt |-> FALSE, axis |-> 0]

\* the static locals of EyouMotorAdapter::makeControl when the process starts,
\* no call made yet
EyouInit ==
    [st     |-> [fault_reset_count |-> 0, state_change_delay |-> 0, last_status |-> 0],
     last   |-> EyouNoCall,
     prev   |-> EyouNoCall,
     streak |-> 0,
     run    |-> 0,
     change |-> FALSE,
     loop   |-> [n          |-> 0,
                 status     |-> [m \in 0 .. 1 |-> 0],
                 control    |-> [m \in 0 .. 1 |-> 0],
                 run_enable |-> [m \in 0 .. 1 |-> FALSE]]]

\* no file at all: the path names nothing that can be opened
NoFile == [layout |-> "none", sections |-> <<>>]

\* SimpleXmlParser not yet constructed, MotorApi not yet initialised
XmlInit ==
    [pc |-> "new", file |-> NoFile, slaves |-> <<>>, slave_pos |-> <<>>,
     regs |-> <<>>, passed |-> FALSE, ok |-> FALSE]

\* motor_api_read_eni and motor_api_create not yet called
EniInit ==
    [pc |-> "new", path |-> FALSE, file |-> [open |-> FALSE, list |-> <<>>, info |-> <<>>],
     rc |-> 0, count |-> 0, slaves |-> <<>>, ret |-> 0, position |-> <<>>,
     master |-> "none", mem |-> "none", list |-> "none", out_handle |-> FALSE]

(***************************************************************************)
(* State after motor_api_create.                                           *)
(***************************************************************************)
InitFor(counts) ==
    /\ slave_count \in counts
    /\ cmd = [run |-> FALSE, dir |-> 0, step |-> 0]
    /\ servo_enabled = [i \in Axes |-> FALSE]
    /\ csp_warmup = [i \in Axes |-> 0]
    /\ csp_target = [i \in Axes |-> 0]
    /\ seen_enabled = [i \in Axes |-> FALSE]
    /\ last_actual_pos = [i \in Axes |-> 0]
    /\ barrier_armed = FALSE
    /\ barrier_start_ns = 0
    /\ barrier_delay_ns = BarrierDelayNs
    /\ motion_started = FALSE
    /\ pd_status = [i \in Axes |-> 0]
    /\ pd_actual = [i \in Axes |-> 0]
    /\ pd_control = [i \in Axes |-> 0]
    /\ pd_mode = [i \in Axes |-> 0]
    /\ pd_target = [i \in Axes |-> 0]
    /\ clock = 0
    /\ obs = [ticked     |-> FALSE,
              pre_servo  |-> [i \in Axes |-> FALSE],
              pre_motion |-> FALSE,
              pre_armed  |-> FALSE,
              pre_warmup |-> [i \in Axes |-> 0],
              cw         |-> [i \in Axes |-> <<>>],
              tgt        |-> [i \in Axes |-> <<>>],
              mode       |-> [i \in Axes |-> <<>>],
              delta      |-> [i \in Axes |-> 0],
              change     |-> [i \in Axes |-> 0],
              axis_cmd   |-> [i \in Axes |-> [run |-> FALSE, dir |-> 0, step |-> 0]],
              moved      |-> [i \in Axes |-> FALSE],
              first      |-> [i \in Axes |-> FALSE],
              run        |-> FALSE,
              all        |-> FALSE,
              arming     |-> FALSE,
              fire       |-> FALSE,
              now        |-> 0,
              ops        |-> <<>>]
    /\ mon = [all_time |-> -1, prev_all_time |-> -1, moves |-> 0,
              adv |-> [i \in Axes |-> FALSE]]
    /\ scn = [on |-> TRUE, n |-> 0, cw |-> <<>>]
    /\ mc = NoCall
    /\ cs = CsInit
    /\ net = NetInit
    /\ host = HostInit
    /\ api = ApiInit
    /\ reg = [adapters |-> <<>>, cleared |-> FALSE, q |-> RegNoQuery]
    /\ eyou = EyouInit
    /\ xml = XmlInit
    /\ eni = EniInit

Init == InitFor(SlaveCounts)

InitWide == InitFor({1})

(***************************************************************************)
(* The calls into the master and the writes to the process image that one  *)
(* motor_api_run_once makes, in program order.  r[i] is what the loop body *)
(* of axis i did, fire whether the barrier block fired, ap the actual      *)
(* positions of the tick.                                                  *)
(***************************************************************************)
\* one call (by = "bus") or one EC_WRITE (by = "loop" or "barrier")
Op(by, op, axis, val) == [by |-> by, op |-> op, axis |-> axis, val |-> val]

\* EC_WRITE_S32 of the target, EC_WRITE_U16 of the control word(s) and
\* EC_WRITE_S8 of the mode, as every branch of the loop body orders them
AxisWrites(i, ri) ==
    [k \in 1 .. Len(ri.tgt) |-> Op("loop", "target", i, ri.tgt[k])]
    \o [k \in 1 .. Len(ri.cw) |-> Op("loop", "control", i, ri.cw[k])]
    \o [k \in 1 .. Len(ri.mode) |-> Op("loop", "mode", i, ri.mode[k])]

RECURSIVE LoopWrites(_, _)
\* for (i = 0; i < h->slave_count; ++i), axes i .. slave_count - 1
LoopWrites(r, i) ==
    IF i >= slave_count THEN <<>>
    ELSE AxisWrites(i, r[i]) \o LoopWrites(r, i + 1)

RECURSIVE FireWrites(_, _)
\* the loop of the firing barrier, axes i .. slave_count - 1
FireWrites(ap, i) ==
    IF i >= slave_count THEN <<>>
    ELSE <<Op("barrier", "target", i, ap[i]), Op("barrier", "control", i, 15),
           Op("barrier", "mode", i, MA_MODE_CSP)>>
         \o FireWrites(ap, i + 1)

\* the tick with the domain queued before the barrier block
TickOps_QueueBeforeBarrier(r, fire, ap) ==
    <<Op("bus", "application_time", -1, 0), Op("bus", "receive", -1, 0),
      Op("bus", "process", -1, 0), Op("bus", "sync_slave_clocks", -1, 0)>>
    \o LoopWrites(r, 0)
    \o <<Op("bus", "queue", -1, 0)>>
    \o (IF fire THEN FireWrites(ap, 0) ELSE <<>>)
    \o <<Op("bus", "send", -1, 0)>>

TickOps(r, fire, ap) ==
    <<Op("bus", "application_time", -1, 0), Op("bus", "receive", -1, 0),
      Op("bus", "process", -1, 0), Op("bus", "sync_slave_clocks", -1, 0)>>
    \o LoopWrites(r, 0)
    \o (IF fire THEN FireWrites(ap, 0) ELSE <<>>)
    \o <<Op("bus", "queue", -1, 0), Op("bus", "send", -1, 0)>>

(***************************************************************************)
(* motor_api_run_once.  st and ap are the status words and actual           *)
(* positions the receive leaves in the process image, cmdAt[k] the command  *)
(* stored when cmd_mutex is taken for axis k (k = slave_count: for the      *)
(* barrier block), adv the time since the barrier last read the clock and   *)
(* gap the time between the two clock readings of an arming tick.           *)
(***************************************************************************)
TickStep(st, ap, cmdAt, adv, gap) ==
    /\ adv + gap <= MaxClockSteps * ClockStep - clock
    /\ \E r \in {[i \in Axes |-> AxisStep(i, st[i], ap[i], cmdAt[i])]},
          seen \in {[i \in Axes |-> SeenEnabled(st[i])]} :
       \E bar \in {Barrier(seen, cmdAt[slave_count].run, clock + adv, gap)} :
       \E reads \in {~motion_started /\ cmdAt[slave_count].run
                       /\ (barrier_armed \/ bar.arming)},
          moving \in {\E i \in Axes : r[i].moved /\ r[i].delta # 0},
          cwAll \in {[i \in Axes |-> IF bar.fire THEN Append(r[i].cw, 15)
                                     ELSE r[i].cw]},
          tgtAll \in {[i \in Axes |-> IF bar.fire THEN Append(r[i].tgt, ap[i])
                                      ELSE r[i].tgt]},
          modeAll \in {[i \in Axes |-> IF bar.fire
                                       THEN Append(r[i].mode, MA_MODE_CSP)
                                       ELSE r[i].mode]} :
           /\ reads \/ adv = 0
           /\ bar.arming \/ gap = 0
           /\ moving => mon.moves < MaxMoves
           /\ servo_enabled' = [i \in Axes |-> r[i].servo]
           /\ csp_warmup' = [i \in Axes |-> r[i].warmup]
           /\ csp_target' = [i \in Axes |-> IF bar.fire THEN ap[i] ELSE r[i].target]
           /\ seen_enabled' = seen
           /\ last_actual_pos' = [i \in Axes |-> r[i].last]
           /\ barrier_armed' = bar.armed
           /\ barrier_start_ns' = bar.start
           /\ motion_started' = bar.motion
           /\ pd_status' = st
           /\ pd_actual' = ap
           /\ pd_control' = [i \in Axes |-> cwAll[i][Len(cwAll[i])]]
           /\ pd_mode' = [i \in Axes |-> modeAll[i][Len(modeAll[i])]]
           /\ pd_target' = [i \in Axes |-> IF tgtAll[i] = <<>> THEN pd_target[i]
                                           ELSE tgtAll[i][Len(tgtAll[i])]]
           /\ clock' = IF reads THEN bar.now ELSE clock
           /\ cmd' = cmdAt[slave_count]
           /\ obs' = [ticked     |-> TRUE,
                      pre_servo  |-> servo_enabled,
                      pre_motion |-> motion_started,
                      pre_armed  |-> barrier_armed,
                      pre_warmup |-> csp_warmup,
                      cw         |-> cwAll,
                      tgt        |-> tgtAll,
                      mode       |-> modeAll,
                      delta      |-> [i \in Axes |-> r[i].delta],
                      change     |-> [i \in Axes |->
                                        IF r[i].moved
                                        THEN r[i].target - csp_target[i]
                                        ELSE 0],
                      moved      |-> [i \in Axes |-> r[i].moved],
                      first      |-> [i \in Axes |->
                                        r[i].moved /\ r[i].delta # 0 /\ ~mon.adv[i]],
                      axis_cmd   |-> [i \in Axes |-> cmdAt[i]],
                      run        |-> cmdAt[slave_count].run,
                      all        |-> bar.all,
                      arming     |-> bar.arming,
                      fire       |-> bar.fire,
                      now        |-> IF reads THEN bar.now ELSE clock,
                      ops        |-> TickOps(r, bar.fire, ap)]
           /\ mon' = [all_time      |-> IF motion_started \/ ~cmdAt[slave_count].run
                                        THEN -1
                                        ELSE IF bar.all /\ reads THEN bar.now
                                        ELSE mon.all_time,
                      prev_all_time |-> IF motion_started THEN -1
                                        ELSE mon.all_time,
                      moves         |-> IF moving THEN mon.moves + 1 ELSE mon.moves,
                      adv           |-> [i \in Axes |->
                                           mon.adv[i]
                                           \/ (r[i].moved /\ r[i].delta # 0)]]
           /\ scn' = ScnNext(st[0], cwAll[0][Len(cwAll[0])])
           /\ mc' = NoCall
           /\ UNCHANGED <<slave_count, barrier_delay_ns, cs, net, host, lib>>

\* a tick during which no other thread stores a command
Tick ==
    \E st \in [Axes -> StatusSet], ap \in [Axes -> PosSet],
       adv \in (IF ~motion_started /\ cmd.run THEN ClockAdv ELSE {0}),
       gap \in (IF ~motion_started /\ cmd.run /\ ~barrier_armed
                THEN ClockGap ELSE {0}) :
        TickStep(st, ap, [k \in 0 .. slave_count |-> cmd], adv, gap)

\* a tick during which another thread stores a command between the lock
\* acquisitions of axis k-1 and axis k (cmd_mutex is taken per axis only once
\* motion has started, and the command read is used only after warmup; a
\* command stored before the first or after the last per-axis acquisition is
\* SetCommand before or after the tick)
TickConcurrent ==
    /\ motion_started
    /\ \E i \in Axes : csp_warmup[i] = 0
    /\ \E st \in [Axes -> StatusSet], ap \in [Axes -> PosSet],
          k \in 1 .. (slave_count - 1), a \in CmdInputs :
           /\ set_cmd_locked(a[1], a[2], a[3]) # cmd
           /\ TickStep(st, ap,
                       [j \in 0 .. slave_count |->
                           IF j < k THEN cmd
                           ELSE set_cmd_locked(a[1], a[2], a[3])],
                       0, 0)

\* a set_command whose stop also disarms the barrier
SetCommand_Disarm ==
    \E a \in CmdInputs :
        /\ cmd' = set_cmd_locked(a[1], a[2], a[3])
        /\ barrier_armed' = (barrier_armed /\ a[1])
        /\ mon' = [mon EXCEPT !.all_time = IF a[1] THEN @ ELSE -1]
        /\ UNCHANGED <<slave_count, servo_enabled, csp_warmup, csp_target,
                       seen_enabled, last_actual_pos,
                       barrier_start_ns, barrier_delay_ns, motion_started,
                       pd_status, pd_actual, pd_control, pd_mode, pd_target,
                       clock, obs, scn, mc, cs, net, host, lib>>

\* motor_api_set_command between two ticks
SetCommand ==
    \E a \in CmdInputs :
        /\ cmd' = set_cmd_locked(a[1], a[2], a[3])
        /\ mon' = [mon EXCEPT !.all_time = IF a[1] THEN @ ELSE -1]
        /\ UNCHANGED <<slave_count, servo_enabled, csp_warmup, csp_target,
                       seen_enabled, last_actual_pos, barrier_armed,
                       barrier_start_ns, barrier_delay_ns, motion_started,
                       pd_status, pd_actual, pd_control, pd_mode, pd_target,
                       clock, obs, scn, mc, cs, net, host, lib>>

Next == Tick \/ TickConcurrent \/ SetCommand

Spec == Init /\ [][Next]_vars

(***************************************************************************)
(* Single-axis specification over the wide status set: the host reads the  *)
(* status word of the cycle and passes it to the standard adapter.         *)
(***************************************************************************)
TickWide ==
    \E st \in [Axes -> StatusWide], ap \in [Axes -> PosSet] :
        TickStep(st, ap, [k \in 0 .. slave_count |-> cmd], 0, 0)

MakeControl ==
    /\ obs.ticked
    /\ ~mc.called
    /\ mc' = [called     |-> TRUE,
              status     |-> pd_status[0],
              control    |-> StandardMakeControl(pd_status[0]).control,
              run_enable |-> StandardMakeControl(pd_status[0]).run_enable]
    /\ UNCHANGED <<slave_count, cmd, servo_enabled, csp_warmup, csp_target,
                   seen_enabled, last_actual_pos, barrier_armed,
                   barrier_start_ns, barrier_delay_ns, motion_started,
                   pd_status, pd_actual, pd_control, pd_mode, pd_target,
                   clock, obs, mon, scn, cs, net, host, lib>>

NextWide == TickWide \/ MakeControl

SpecWide == InitWide /\ [][NextWide]_vars

(***************************************************************************)
(* The command record, statement by statement: one thread inside           *)
(* set_cmd_locked (the caller of motor_api_set_command or the HTTP thread)  *)
(* and the tick thread inside the locked copy of motor_api_run_once.        *)
(***************************************************************************)
\* pthread_mutex_lock that does not wait for the holder
CanLock_NoMutex == TRUE

\* pthread_mutex_lock(&h->cmd_mutex) returns when the mutex is free
CanLock == cs.mutex = "free"

\* set_cmd_locked entered with the limits skipped
CmdEnter_Raw ==
    /\ cs.wpc = "idle"
    /\ \E a \in CmdArgs :
          cs' = [cs EXCEPT !.wpc = "lock", !.wargs = a, !.called = FALSE,
                           !.wloc = [run |-> a[1], dir |-> a[2], step |-> a[3]]]
    /\ UNCHANGED <<cmd, ctl, pd, hist, net, host, lib>>

\* set_cmd_locked up to the lock: the limits are applied to the arguments
CmdEnter ==
    /\ cs.wpc = "idle"
    /\ \E a \in CmdArgs :
          cs' = [cs EXCEPT !.wpc = "lock", !.wargs = a, !.called = FALSE,
                           !.wloc = set_cmd_locked(a[1], a[2], a[3])]
    /\ UNCHANGED <<cmd, ctl, pd, hist, net, host, lib>>

CmdLock ==
    /\ cs.wpc = "lock"
    /\ CanLock
    /\ cs' = [cs EXCEPT !.mutex = "writer", !.wpc = "run", !.old = cmd,
                        !.full = IF cs.rpc = "idle" THEN @ ELSE @ \cup {cs.wloc}]
    /\ UNCHANGED <<cmd, ctl, pd, hist, net, host, lib>>

\* h->cmd_run = run
CmdStoreRun ==
    /\ cs.wpc = "run"
    /\ cmd' = [cmd EXCEPT !.run = cs.wloc.run]
    /\ cs' = [cs EXCEPT !.wpc = "dir"]
    /\ UNCHANGED <<ctl, pd, hist, net, host, lib>>

\* h->cmd_dir = dir
CmdStoreDir ==
    /\ cs.wpc = "dir"
    /\ cmd' = [cmd EXCEPT !.dir = cs.wloc.dir]
    /\ cs' = [cs EXCEPT !.wpc = "step"]
    /\ UNCHANGED <<ctl, pd, hist, net, host, lib>>

\* h->cmd_step = step
CmdStoreStep ==
    /\ cs.wpc = "step"
    /\ cmd' = [cmd EXCEPT !.step = cs.wloc.step]
    /\ cs' = [cs EXCEPT !.wpc = "unlock"]
    /\ UNCHANGED <<ctl, pd, hist, net, host, lib>>

CmdUnlock ==
    /\ cs.wpc = "unlock"
    /\ cs' = [cs EXCEPT !.mutex = "free", !.wpc = "idle", !.called = TRUE]
    /\ UNCHANGED <<cmd, ctl, pd, hist, net, host, lib>>

\* the tick takes cmd_mutex; cs.full collects the commands completely stored
\* or being stored from here to the unlock
ReadLock ==
    /\ cs.rpc = "idle"
    /\ CanLock
    /\ cs' = [cs EXCEPT !.mutex = "tick", !.rpc = "run", !.got = FALSE,
                        !.snap = ZeroCmd,
                        !.full = IF cs.wpc \in {"run", "dir", "step", "unlock"}
                                 THEN {cs.old, cs.wloc}
                                 ELSE {cmd}]
    /\ UNCHANGED <<cmd, ctl, pd, hist, net, host, lib>>

\* bool run = h->cmd_run
ReadRun ==
    /\ cs.rpc = "run"
    /\ cs' = [cs EXCEPT !.rpc = "dir", !.snap.run = cmd.run]
    /\ UNCHANGED <<cmd, ctl, pd, hist, net, host, lib>>

\* int dir = h->cmd_dir
ReadDir ==
    /\ cs.rpc = "dir"
    /\ cs' = [cs EXCEPT !.rpc = "step", !.snap.dir = cmd.dir]
    /\ UNCHANGED <<cmd, ctl, pd, hist, net, host, lib>>

\* int step = h->cmd_step
ReadStep ==
    /\ cs.rpc = "step"
    /\ cs' = [cs EXCEPT !.rpc = "unlock", !.snap.step = cmd.step]
    /\ UNCHANGED <<cmd, ctl, pd, hist, net, host, lib>>

ReadUnlock ==
    /\ cs.rpc = "unlock"
    /\ cs' = [cs EXCEPT !.mutex = "free", !.rpc = "idle", !.got = TRUE]
    /\ UNCHANGED <<cmd, ctl, pd, hist, net, host, lib>>

NextCmd ==
    \/ CmdEnter \/ CmdLock \/ CmdStoreRun \/ CmdStoreDir \/ CmdStoreStep
    \/ CmdUnlock
    \/ ReadLock \/ ReadRun \/ ReadDir \/ ReadStep \/ ReadUnlock

SpecCmd == InitWide /\ [][NextCmd]_vars

(***************************************************************************)
(* Handle lifetime and the HTTP service: the caller's thread runs          *)
(* start_http, stop_http, destroy and the ticks; the HTTP thread runs      *)
(* http_thread_fn.                                                         *)
(***************************************************************************)
\* run, dir, step that POST /control and POST /stop pass to set_cmd_locked
HttpCommand(r) ==
    CASE r = "control_fwd" -> set_cmd_locked(TRUE, 1, 500)
      [] r = "control_rev" -> set_cmd_locked(TRUE, -1, 100000000)
      [] r = "stop"        -> set_cmd_locked(FALSE, 0, 0)
      [] OTHER             -> cmd

\* motor_api_start_http: pthread_create succeeds or fails
StartHttp ==
    /\ net.handle = "alive"
    /\ net.caller = "idle"
    /\ net.thread = "none"
    /\ \E ok \in BOOLEAN :
          net' = [net EXCEPT !.stop = 0,
                             !.thread = IF ok THEN "setup" ELSE "none"]
    /\ UNCHANGED <<cmd, ctl, pd, hist, cs, host, lib>>

\* http_thread_fn up to the loop: reads h->http_port; socket, bind or listen
\* may fail
HttpSetup ==
    /\ net.thread = "setup"
    /\ \E ok \in BOOLEAN :
          net' = [net EXCEPT !.thread = IF ok THEN "check" ELSE "exited",
                             !.uaf = @ \/ net.handle = "freed"]
    /\ UNCHANGED <<cmd, ctl, pd, hist, cs, host, lib>>

\* while (!h->stop): the value read from a freed handle is arbitrary
HttpLoopCheck ==
    /\ net.thread = "check"
    /\ \E seen \in (IF net.handle = "freed" THEN {0, 1} ELSE {net.stop}) :
          net' = [net EXCEPT !.thread = IF seen = 0 THEN "accept" ELSE "exited",
                             !.uaf = @ \/ net.handle = "freed"]
    /\ UNCHANGED <<cmd, ctl, pd, hist, cs, host, lib>>

\* accept returns with a connection and recv with its request
HttpConnect ==
    /\ net.thread = "accept"
    /\ \E r \in HttpRequests :
          net' = [net EXCEPT !.thread = "handle", !.req = r]
    /\ UNCHANGED <<cmd, ctl, pd, hist, cs, host, lib>>

\* the request is served: /status copies the command under cmd_mutex, /diag
\* reads the process image in format_diag, /control and /stop call
\* set_cmd_locked, /shutdown sets h->stop
HttpHandle ==
    /\ net.thread = "handle"
    /\ net' = [net EXCEPT !.thread = "check",
                          !.req = "none",
                          !.stop = IF net.req = "shutdown" /\ net.handle = "alive"
                                   THEN 1 ELSE @,
                          !.pi_other = @ \/ (net.req = "diag"
                                               /\ net.handle = "alive"),
                          !.uaf = @ \/ (net.req \in HandleRequests
                                          /\ net.handle = "freed")]
    /\ cmd' = IF net.handle = "alive" THEN HttpCommand(net.req) ELSE cmd
    /\ mon' = [mon EXCEPT !.all_time =
                  IF net.handle = "alive" /\ ~HttpCommand(net.req).run
                  THEN -1 ELSE @]
    /\ UNCHANGED <<ctl, pd, clock, obs, scn, mc, cs, host, lib>>

\* motor_api_stop_http up to pthread_join, which is skipped when no thread
\* was created
StopHttpCall ==
    /\ net.handle = "alive"
    /\ net.caller = "idle"
    /\ ~net.stopped
    /\ net' = [net EXCEPT !.stop = 1,
                          !.caller = IF net.thread = "none" THEN "idle" ELSE "join",
                          !.stopped = (net.thread = "none")]
    /\ UNCHANGED <<cmd, ctl, pd, hist, cs, host, lib>>

\* pthread_join returns once the HTTP thread has exited
StopHttpJoin ==
    /\ net.caller = "join"
    /\ net.thread = "exited"
    /\ net' = [net EXCEPT !.caller = "idle", !.stopped = TRUE]
    /\ UNCHANGED <<cmd, ctl, pd, hist, cs, host, lib>>

\* motor_api_destroy: release the master, destroy cmd_mutex, free the handle
Destroy ==
    /\ net.handle = "alive"
    /\ net.caller = "idle"
    /\ net' = [net EXCEPT !.master = "released", !.mutex = "destroyed",
                          !.handle = "freed"]
    /\ UNCHANGED <<cmd, ctl, pd, hist, cs, host, lib>>

\* motor_api_run_once called by the caller's thread on a live handle
RunOnce ==
    /\ net.handle = "alive"
    /\ net.caller = "idle"
    /\ \E st \in [Axes -> StatusSet], ap \in [Axes -> PosSet] :
          TickStep(st, ap, [k \in 0 .. slave_count |-> cmd], 0, 0)

NextHttp ==
    \/ StartHttp \/ HttpSetup \/ HttpLoopCheck \/ HttpConnect \/ HttpHandle
    \/ StopHttpCall \/ StopHttpJoin \/ Destroy \/ RunOnce

SpecHttp == InitWide /\ [][NextHttp]_vars

\* the HTTP thread and a caller blocked in pthread_join are scheduled; no
\* client is bound to connect
SpecHttpLive ==
    /\ SpecHttp
    /\ WF_vars(HttpSetup)
    /\ WF_vars(HttpLoopCheck)
    /\ WF_vars(HttpHandle)
    /\ WF_vars(StopHttpJoin)

(***************************************************************************)
(* The MotorApi object driven by main of test.cpp, one library call per     *)
(* step, and SIGINT delivered between any two of them.  Target positions    *)
(* are not followed.                                                        *)
(***************************************************************************)
\* MotorApi::cleanup
Cleanup(h) ==
    [h EXCEPT !.run = FALSE,
              !.master = IF @ = "held" THEN "released" ELSE @,
              !.count = 0]

\* init_auto: the handler is registered, the master requested and the slaves
\* counted; on failure main returns
HostInitAuto ==
    /\ host.pc = "init"
    /\ \/ \E n \in HostMotors :
             host' = [host EXCEPT !.pc = "running", !.handler = TRUE,
                                  !.master = "held", !.count = n, !.motors = n]
       \/ host' = [host EXCEPT !.pc = "done", !.handler = TRUE]
    /\ UNCHANGED <<cmd, ctl, pd, hist, cs, net, lib>>

\* while (api.running())
HostCheckRunning ==
    /\ host.pc = "running"
    /\ host' = [host EXCEPT !.pc = IF host.run THEN "opmode" ELSE "final"]
    /\ UNCHANGED <<cmd, ctl, pd, hist, cs, net, lib>>

\* set_opmode for every motor
HostSetOpmode ==
    /\ host.pc = "opmode"
    /\ host' = [host EXCEPT !.pc = "receive"]
    /\ UNCHANGED <<cmd, ctl, pd, hist, cs, net, lib>>

\* receive_and_process: ecrt_master_receive(master_)
HostReceive ==
    /\ host.pc = "receive"
    /\ host' = [host EXCEPT !.pc = "motor", !.m = 0,
                            !.released = @ \/ host.master # "held"]
    /\ UNCHANGED <<cmd, ctl, pd, hist, cs, net, lib>>

\* get_status, make_control and write_control for motor m; each returns at
\* once when m >= slave_count_
HostMotor ==
    /\ host.pc = "motor"
    /\ \E st \in HostStatusSet :
         \E mk \in {StandardMakeControl(st)} :
          host' = [host EXCEPT
                     !.pc = IF host.m + 1 >= host.motors THEN "targets" ELSE @,
                     !.m = IF host.m + 1 >= host.motors THEN 0 ELSE @ + 1,
                     !.status[host.m] =
                         IF host.m >= host.count THEN 0 ELSE st,
                     !.control[host.m] =
                         IF host.m >= host.count THEN 0 ELSE mk.control,
                     !.run_enable[host.m] =
                         IF host.m >= host.count THEN @ ELSE mk.run_enable]
    /\ UNCHANGED <<cmd, ctl, pd, hist, cs, net, lib>>

\* the second loop: start_pos[m] += step[m] and update_target_pos for the
\* motors with run_enable set; update_target_pos writes nothing when
\* m >= slave_count_
HostTargets ==
    /\ host.pc = "targets"
    /\ host' = [host EXCEPT
                  !.pc = "send",
                  !.advanced = [k \in 0 .. 1 |->
                                   k < host.motors /\ k < host.count
                                   /\ host.run_enable[k]]]
    /\ UNCHANGED <<cmd, ctl, pd, hist, cs, net, lib>>

\* queue_and_send: ecrt_master_send(master_), then usleep
HostSend ==
    /\ host.pc = "send"
    /\ host' = [host EXCEPT !.pc = "running",
                            !.advanced = [k \in 0 .. 1 |-> FALSE],
                            !.released = @ \/ host.master # "held"]
    /\ UNCHANGED <<cmd, ctl, pd, hist, cs, net, lib>>

\* api.cleanup() after the loop
HostFinalCleanup ==
    /\ host.pc = "final"
    /\ host' = [Cleanup(host) EXCEPT !.pc = "done"]
    /\ UNCHANGED <<cmd, ctl, pd, hist, cs, net, lib>>

\* SIGINT: MotorApi::signal_handler runs on the main thread between two
\* steps of the loop
HostSigint ==
    /\ host.handler
    /\ host.pc \notin {"init", "done"}
    /\ host.signals < MaxSignals
    /\ host' = [Cleanup(host) EXCEPT !.signals = @ + 1]
    /\ UNCHANGED <<cmd, ctl, pd, hist, cs, net, lib>>

NextHost ==
    \/ HostInitAuto \/ HostCheckRunning \/ HostSetOpmode \/ HostReceive
    \/ HostMotor \/ HostTargets \/ HostSend \/ HostFinalCleanup \/ HostSigint

SpecHost == InitWide /\ [][NextHost]_vars

(***************************************************************************)
(* The adapter classes of vendor_adapters.cpp and motor_adapter.cpp.  A     *)
(* 32-bit identifier is written as the pair of its 16-bit halves.          *)
(***************************************************************************)
\* getMotorInfo().vendor_id and .product_code of each class
MotorInfoOf(kind) ==
    CASE kind = "Eyou"      -> [vendor_id |-> <<0, 4247>>, product_code |-> <<0, 9222>>]
      [] kind = "Delta"     -> [vendor_id |-> <<0, 1>>, product_code |-> <<4660, 22136>>]
      [] kind = "Yaskawa"   -> [vendor_id |-> <<0, 2>>, product_code |-> <<34661, 17185>>]
      [] kind = "Panasonic" -> [vendor_id |-> <<0, 3>>, product_code |-> <<4386, 13124>>]
      [] OTHER              -> [vendor_id |-> <<0, 0>>, product_code |-> <<0, 0>>]

\* supportsMotor of each class; the base class supports no motor
SupportsMotor(kind, vendor_id, product_code) ==
    /\ kind \in {"Eyou", "Delta", "Yaskawa", "Panasonic"}
    /\ vendor_id = MotorInfoOf(kind).vendor_id
    /\ product_code = MotorInfoOf(kind).product_code

\* getName of each class
AdapterName(kind) ==
    CASE kind = "Eyou"      -> "EYOU Motor Adapter"
      [] kind = "Delta"     -> "Delta Motor Adapter"
      [] kind = "Yaskawa"   -> "Yaskawa Motor Adapter"
      [] kind = "Panasonic" -> "Panasonic Motor Adapter"
      [] kind = "Standard"  -> "Standard Motor Adapter"
      [] OTHER              -> ""

\* the text MotorApi::get_motor_info formats with "VID: 0x%08X, PID: 0x%08X"
MotorInfoText(kind) ==
    CASE kind = "Eyou"      -> "VID: 0x00001097, PID: 0x00002406"
      [] kind = "Delta"     -> "VID: 0x00000001, PID: 0x12345678"
      [] kind = "Yaskawa"   -> "VID: 0x00000002, PID: 0x87654321"
      [] kind = "Panasonic" -> "VID: 0x00000003, PID: 0x11223344"
      [] OTHER              -> "VID: 0x00000000, PID: 0x00000000"

\* the delay test passing one call more
EyouDelaying_Inclusive(delay) == delay <= StateChangeDelay

\* if (state_change_delay < 5) return 0x0000
EyouDelaying(delay) == delay < StateChangeDelay

(***************************************************************************)
(* EyouMotorAdapter::makeControl.  Its three static locals live for the     *)
(* whole process and are shared by every EyouMotorAdapter instance and      *)
(* every axis.  st is their value before the call, run_enable the value the *)
(* caller's variable holds; the result carries the statics after the call,  *)
(* the control word returned and the caller's variable after the call.      *)
(***************************************************************************)
EyouMakeControl(st, status, run_enable) ==
    LET delay == IF status # st.last_status THEN 0
                 ELSE st.state_change_delay + 1
        st1 == [st EXCEPT !.state_change_delay = delay, !.last_status = status]
        ready_to_switch_on == HasBit(status, 1)
        switched_on        == HasBit(status, 2)
        operation_enabled  == HasBit(status, 4)
        fault              == HasBit(status, 8)
        quick_stop         == HasBit(status, 32)
        warning            == HasBit(status, 128)
        fault_code         == (status \div 256) % 256
        std                == StandardMakeControl(status)
    IN  IF EyouDelaying(delay)
        THEN [st |-> st1, control |-> 0, run_enable |-> run_enable, attempt |-> FALSE]
        ELSE IF fault /\ fault_code \in {8, 9}
        THEN [st |-> [st1 EXCEPT !.fault_reset_count = 0],
              control |-> 128, run_enable |-> FALSE, attempt |-> FALSE]
        ELSE IF fault /\ st.fault_reset_count + 1 < FaultResetLimit
        THEN [st |-> [st1 EXCEPT !.fault_reset_count = @ + 1],
              control |-> 128, run_enable |-> FALSE, attempt |-> TRUE]
        ELSE IF fault
        THEN [st |-> [st1 EXCEPT !.fault_reset_count = 0],
              control |-> 6, run_enable |-> TRUE, attempt |-> TRUE]
        ELSE IF warning
        THEN [st |-> st1,
              control |-> (IF ready_to_switch_on /\ switched_on /\ ~operation_enabled
                           THEN 15
                           ELSE IF ready_to_switch_on /\ ~switched_on THEN 7
                           ELSE 6),
              run_enable |-> TRUE, attempt |-> FALSE]
        ELSE IF quick_stop /\ ready_to_switch_on /\ ~switched_on
        THEN [st |-> st1, control |-> 7, run_enable |-> TRUE, attempt |-> FALSE]
        ELSE IF quick_stop /\ ready_to_switch_on /\ switched_on
        THEN [st |-> st1, control |-> 2, run_enable |-> TRUE, attempt |-> FALSE]
        ELSE IF quick_stop
        THEN [st |-> st1, control |-> 2, run_enable |-> FALSE, attempt |-> FALSE]
        ELSE IF ~ready_to_switch_on /\ ~switched_on /\ ~operation_enabled
        THEN [st |-> st1, control |-> 6, run_enable |-> TRUE, attempt |-> FALSE]
        ELSE IF ready_to_switch_on /\ switched_on /\ ~operation_enabled
        THEN [st |-> st1, control |-> 15, run_enable |-> TRUE, attempt |-> FALSE]
        ELSE [st |-> st1, control |-> std.control, run_enable |-> std.run_enable,
              attempt |-> FALSE]

(***************************************************************************)
(* The axis-keyed operations of MotorApi.  api.rx and api.tx are the        *)
(* objects 0x6060, 0x6040, 0x607A and 0x6041, 0x6064 of each axis in the    *)
(* process image domain_pd_; slots at and beyond slave_count_ are the       *)
(* memory behind the end of the vectors, which no operation may reach.      *)
(***************************************************************************)
\* the index check with the comparison off by one
ApiIndexError_Above(m) == m > api.count

\* if (motor >= slave_count_) return ...
ApiIndexError(m) == m >= api.count

ApiCall(op, m, ret, str, stores) ==
    [op |-> op, motor |-> m, valid |-> ~(m >= api.count), ret |-> ret,
     str |-> str, stores |-> stores, aborted |-> FALSE]

\* a store through or a load from the null domain_pd_ ends the process
ApiAbort(op, m) ==
    /\ api' = [api EXCEPT !.stage = "aborted",
                          !.call = [ApiCall(op, m, 0, "", 0) EXCEPT !.aborted = TRUE]]

ApiLive == api.stage \in {"new", "init", "clean"}

\* init_auto: the slaves found become the axes; a failure of
\* ecrt_master_activate or ecrt_domain_data returns with the axes counted and
\* domain_pd_ null
ApiInitAuto ==
    /\ api.stage = "new"
    /\ \E bus \in {<<>>, <<"Eyou">>, <<"Delta", "Panasonic">>}, late \in BOOLEAN :
          api' = [api EXCEPT
                    !.stage = "init",
                    !.count = Len(bus),
                    !.pd_ok = Len(bus) > 0 /\ ~late,
                    !.adapter = [k \in ApiMotors |->
                                    IF k < Len(bus) THEN bus[k + 1] ELSE "none"],
                    !.call = ApiNoCall]
    /\ UNCHANGED <<cmd, ctl, pd, hist, cs, net, host, reg, eyou, xml, eni>>

\* cleanup: slave_count_ = 0, domain_pd_ = nullptr, the vectors cleared
ApiCleanup ==
    /\ api.stage = "init"
    /\ api' = [ApiInit EXCEPT !.stage = "clean"]
    /\ UNCHANGED <<cmd, ctl, pd, hist, cs, net, host, reg, eyou, xml, eni>>

\* receive_and_process: the inputs of every axis are refreshed
ApiReceive ==
    /\ api.stage = "init"
    /\ api.pd_ok
    /\ \E in \in [ApiMotors -> {[status |-> 0, actual |-> 0], [status |-> 39, actual |-> 1]}] :
          api' = [api EXCEPT
                    !.tx = [k \in ApiMotors |->
                               IF k < api.count THEN in[k] ELSE api.tx[k]],
                    !.call = ApiNoCall]
    /\ UNCHANGED <<cmd, ctl, pd, hist, cs, net, host, reg, eyou, xml, eni>>

ApiGetAdapterName ==
    /\ ApiLive
    /\ \E m \in ApiMotors :
          api' = [api EXCEPT !.call =
                    IF ApiIndexError(m)
                    THEN ApiCall("get_adapter_name", m, 0, "Invalid motor", 0)
                    ELSE ApiCall("get_adapter_name", m, 0,
                                 AdapterName(api.adapter[m]), 0)]
    /\ UNCHANGED <<cmd, ctl, pd, hist, cs, net, host, reg, eyou, xml, eni>>

ApiGetMotorInfo ==
    /\ ApiLive
    /\ \E m \in ApiMotors :
          api' = [api EXCEPT !.call =
                    IF ApiIndexError(m)
                    THEN ApiCall("get_motor_info", m, 0, "Invalid motor", 0)
                    ELSE ApiCall("get_motor_info", m, 0,
                                 MotorInfoText(api.adapter[m]), 0)]
    /\ UNCHANGED <<cmd, ctl, pd, hist, cs, net, host, reg, eyou, xml, eni>>

\* the receive list of every adapter holds 0x6060 and no 0x60C2: one store
ApiSetOpmode ==
    /\ ApiLive
    /\ \E m \in ApiMotors, op_mode \in {MA_MODE_CSP} :
          IF ApiIndexError(m)
          THEN api' = [api EXCEPT !.call = ApiCall("set_opmode", m, 0, "", 0)]
          ELSE IF ~api.pd_ok
          THEN ApiAbort("set_opmode", m)
          ELSE api' = [api EXCEPT !.rx[m].mode = op_mode,
                                  !.call = ApiCall("set_opmode", m, 0, "", 1)]
    /\ UNCHANGED <<cmd, ctl, pd, hist, cs, net, host, reg, eyou, xml, eni>>

ApiGetStatus ==
    /\ ApiLive
    /\ \E m \in ApiMotors :
          IF ApiIndexError(m)
          THEN api' = [api EXCEPT !.call = ApiCall("get_status", m, 0, "", 0)]
          ELSE IF ~api.pd_ok
          THEN ApiAbort("get_status", m)
          ELSE api' = [api EXCEPT !.call =
                          ApiCall("get_status", m, api.tx[m].status, "", 0)]
    /\ UNCHANGED <<cmd, ctl, pd, hist, cs, net, host, reg, eyou, xml, eni>>

\* make_control hands the status word to the adapter of the axis
ApiMakeControl ==
    /\ ApiLive
    /\ \E m \in ApiMotors, status \in {39} :
          IF ApiIndexError(m)
          THEN /\ api' = [api EXCEPT !.call = ApiCall("make_control", m, 0, "", 0)]
               /\ UNCHANGED eyou
          ELSE IF api.adapter[m] = "Eyou"
          THEN /\ eyou.st.state_change_delay < MaxDelayCount
               /\ \E r \in {EyouMakeControl(eyou.st, status, FALSE)} :
                     /\ api' = [api EXCEPT !.call =
                                   ApiCall("make_control", m, r.control, "", 0)]
                     /\ eyou' = [eyou EXCEPT !.st = r.st]
          ELSE /\ api' = [api EXCEPT !.call =
                             ApiCall("make_control", m,
                                     StandardMakeControl(status).control, "", 0)]
               /\ UNCHANGED eyou
    /\ UNCHANGED <<cmd, ctl, pd, hist, cs, net, host, reg, xml, eni>>

ApiWriteControl ==
    /\ ApiLive
    /\ \E m \in ApiMotors, control \in {15} :
          IF ApiIndexError(m)
          THEN api' = [api EXCEPT !.call = ApiCall("write_control", m, 0, "", 0)]
          ELSE IF ~api.pd_ok
          THEN ApiAbort("write_control", m)
          ELSE api' = [api EXCEPT !.rx[m].control = control,
                                  !.call = ApiCall("write_control", m, 0, "", 1)]
    /\ UNCHANGED <<cmd, ctl, pd, hist, cs, net, host, reg, eyou, xml, eni>>

ApiUpdateTargetPos ==
    /\ ApiLive
    /\ \E m \in ApiMotors, pos \in {1} :
          IF ApiIndexError(m)
          THEN api' = [api EXCEPT !.call = ApiCall("update_target_pos", m, 0, "", 0)]
          ELSE IF ~api.pd_ok
          THEN ApiAbort("update_target_pos", m)
          ELSE api' = [api EXCEPT !.rx[m].target = pos,
                                  !.call = ApiCall("update_target_pos", m, 0, "", 1)]
    /\ UNCHANGED <<cmd, ctl, pd, hist, cs, net, host, reg, eyou, xml, eni>>

\* get_actual_pos also returns 0 while domain_pd_ is null
ApiGetActualPos ==
    /\ ApiLive
    /\ \E m \in ApiMotors :
          api' = [api EXCEPT !.call =
                    IF ApiIndexError(m) \/ ~api.pd_ok
                    THEN ApiCall("get_actual_pos", m, 0, "", 0)
                    ELSE ApiCall("get_actual_pos", m, api.tx[m].actual, "", 0)]
    /\ UNCHANGED <<cmd, ctl, pd, hist, cs, net, host, reg, eyou, xml, eni>>

\* reset stores the control word 0x0080
ApiReset ==
    /\ ApiLive
    /\ \E m \in ApiMotors :
          IF ApiIndexError(m)
          THEN api' = [api EXCEPT !.call = ApiCall("reset", m, 0, "", 0)]
          ELSE IF ~api.pd_ok
          THEN ApiAbort("reset", m)
          ELSE api' = [api EXCEPT !.rx[m].control = 128,
                                  !.call = ApiCall("reset", m, 0, "", 1)]
    /\ UNCHANGED <<cmd, ctl, pd, hist, cs, net, host, reg, eyou, xml, eni>>

NextApi ==
    \/ ApiInitAuto \/ ApiCleanup \/ ApiReceive
    \/ ApiGetAdapterName \/ ApiGetMotorInfo \/ ApiSetOpmode \/ ApiGetStatus
    \/ ApiMakeControl \/ ApiWriteControl \/ ApiUpdateTargetPos
    \/ ApiGetActualPos \/ ApiReset

SpecApi == InitWide /\ [][NextApi]_vars

(***************************************************************************)
(* MotorAdapterManager: the registry adapters_ of the singleton, in         *)
(* registration order, whether clear() emptied it, and the last findAdapter *)
(* call.                                                                   *)
(***************************************************************************)
RECURSIVE LastFrom(_, _, _, _)
\* a scan of adapters_ from its end
LastFrom(adapters, k, vendor_id, product_code) ==
    IF k < 1 THEN 0
    ELSE IF SupportsMotor(adapters[k], vendor_id, product_code) THEN k
    ELSE LastFrom(adapters, k - 1, vendor_id, product_code)

RECURSIVE FindFrom(_, _, _, _)
\* the loop of findAdapter from element k on: the index of the adapter
\* returned, 0 for nullptr
FindFrom(adapters, k, vendor_id, product_code) ==
    IF k > Len(adapters) THEN 0
    ELSE IF SupportsMotor(adapters[k], vendor_id, product_code) THEN k
    ELSE FindFrom(adapters, k + 1, vendor_id, product_code)

\* findAdapter returning the adapter registered last
findAdapter_LastMatch(adapters, vendor_id, product_code) ==
    LastFrom(adapters, Len(adapters), vendor_id, product_code)

\* MotorAdapterManager::findAdapter
findAdapter(adapters, vendor_id, product_code) ==
    FindFrom(adapters, 1, vendor_id, product_code)

\* registerAdapter(std::make_shared<kind>())
RegisterAdapter ==
    /\ Len(reg.adapters) < MaxSingles
    /\ \E kind \in {"Standard", "Eyou", "Delta", "Yaskawa", "Panasonic"} :
          reg' = [reg EXCEPT !.adapters = Append(@, kind), !.q = RegNoQuery]
    /\ UNCHANGED <<cmd, ctl, pd, hist, cs, net, host, api, eyou, xml, eni>>

\* MotorApi::MotorApi registers the four vendor adapters on the singleton
MotorApiConstruct ==
    /\ Len(reg.adapters) + 4 <= MaxAdapters
    /\ reg' = [reg EXCEPT !.adapters = @ \o <<"Eyou", "Delta", "Yaskawa", "Panasonic">>,
                          !.q = RegNoQuery]
    /\ UNCHANGED <<cmd, ctl, pd, hist, cs, net, host, api, eyou, xml, eni>>

\* MotorAdapterManager::clear
ClearAdapters ==
    /\ reg.adapters # <<>>
    /\ reg' = [adapters |-> <<>>, cleared |-> TRUE, q |-> RegNoQuery]
    /\ UNCHANGED <<cmd, ctl, pd, hist, cs, net, host, api, eyou, xml, eni>>

\* a call of findAdapter
RegFind ==
    \* (vendor_id, product_code) pairs passed to findAdapter
    LET RegPairs ==
            {<<MotorInfoOf(k).vendor_id, MotorInfoOf(k).product_code>> :
                k \in {"Eyou", "Delta", "Yaskawa", "Panasonic"}}
            \cup {<<<<0, 4247>>, <<4386, 13124>>>>, <<<<0, 3>>, <<0, 9222>>>>,
                  <<<<0, 0>>, <<0, 0>>>>}
    IN
    /\ \E pr \in RegPairs :
          reg' = [reg EXCEPT !.q = [called       |-> TRUE,
                                    vendor_id    |-> pr[1],
                                    product_code |-> pr[2],
                                    found        |-> findAdapter(reg.adapters, pr[1], pr[2])]]
    /\ UNCHANGED <<cmd, ctl, pd, hist, cs, net, host, api, eyou, xml, eni>>

NextReg == RegisterAdapter \/ MotorApiConstruct \/ ClearAdapters \/ RegFind

SpecReg == InitWide /\ [][NextReg]_vars

(***************************************************************************)
(* The ENI bootstrap of MotorApi: SimpleXmlParser, init_from_eni and        *)
(* init_auto.  A file is the list of its slave sections; a field a section  *)
(* does not hold is "absent".                                               *)
(***************************************************************************)
EyouVendor == <<0, 4247>>

EyouProduct == <<0, 9222>>

\* a field a slave section does not hold
Absent == <<>>

\* values an EniSlaveInfo field holds when no statement has assigned it
Indeterminate32 == {<<0, 0>>, EyouVendor, EyouProduct, <<52428, 52428>>}

\* slave sections of a file: the number after "Slave " (text layout only),
\* the vendor id and the product code
XmlSections ==
    [pos : {0, 1}, vendor : {Absent, <<0, 0>>, EyouVendor},
     product : {Absent, <<0, 0>>, EyouProduct}]

XmlFiles ==
    [layout : {"text", "xml"},
     sections : {<<>>} \cup {<<a>> : a \in XmlSections}
                \cup {<<a, b>> : a \in XmlSections, b \in XmlSections}]
    \cup {NoFile}

\* the EniSlaveInfo records one section can leave in `slave`: a field the
\* section does not hold is never assigned
XmlSlaveOf(e, position) ==
    {[position |-> position, vendor_id |-> v, product_code |-> p] :
        v \in (IF e.vendor = Absent THEN Indeterminate32 ELSE {e.vendor}),
        p \in (IF e.product = Absent THEN Indeterminate32 ELSE {e.product})}

\* if (slave.vendor_id != 0 && slave.product_code != 0) slaves.push_back(slave)
XmlPush(slaves, slave) ==
    IF slave.vendor_id # <<0, 0>> /\ slave.product_code # <<0, 0>>
    THEN Append(slaves, slave) ELSE slaves

RECURSIVE parseTextSlaves(_)
\* SimpleXmlParser::parseTextSlaves: the lists it can return
parseTextSlaves(sections) ==
    IF sections = <<>> THEN {<<>>}
    ELSE LET e == sections[Len(sections)]
         IN  {XmlPush(slaves, slave) :
                 slaves \in parseTextSlaves(SubSeq(sections, 1, Len(sections) - 1)),
                 slave \in XmlSlaveOf(e, e.pos)}

RECURSIVE parseXmlSlaves(_)
\* SimpleXmlParser::parseXmlSlaves: position is slaves.size()
parseXmlSlaves(sections) ==
    IF sections = <<>> THEN {<<>>}
    ELSE LET e == sections[Len(sections)]
             fronts == parseXmlSlaves(SubSeq(sections, 1, Len(sections) - 1))
         IN  UNION {{XmlPush(slaves, slave) : slave \in XmlSlaveOf(e, Len(slaves))} :
                       slaves \in fronts}

\* SimpleXmlParser::isValid
XmlIsValid(file) == file.layout \in {"text", "xml"}

\* SimpleXmlParser::parseSlaves
parseSlaves(file) ==
    IF file.layout = "xml" THEN parseXmlSlaves(file.sections)
    ELSE parseTextSlaves(file.sections)

Entry(index, bit_length) == [index |-> index, subindex |-> 0, bit_length |-> bit_length]

\* StandardMotorAdapter::getRxPdoConfig, inherited by every vendor adapter
getRxPdoConfig ==
    <<Entry(24640, 16), Entry(24698, 32), Entry(24831, 32), Entry(24689, 16),
      Entry(24672, 8), Entry(0, 0), Entry(0, 0), Entry(0, 0), Entry(0, 0),
      Entry(0, 0)>>

\* StandardMotorAdapter::getTxPdoConfig
getTxPdoConfig ==
    <<Entry(24641, 16), Entry(24676, 32), Entry(24684, 32), Entry(24695, 16),
      Entry(24673, 8), Entry(24639, 16), Entry(0, 0), Entry(0, 0), Entry(0, 0),
      Entry(0, 0)>>

\* entries of a list whose index is not that of a gap
RECURSIVE SkipGaps(_)
SkipGaps(entries) ==
    IF entries = <<>> THEN <<>>
    ELSE IF entries[1].index # 0
    THEN <<entries[1]>> \o SkipGaps(Tail(entries))
    ELSE SkipGaps(Tail(entries))

\* the ec_pdo_entry_reg_t elements pushed for the axis at bus position pos
RegsOf(pos, entries) ==
    [k \in 1 .. Len(entries) |->
        [position |-> pos, index |-> entries[k].index, subindex |-> entries[k].subindex]]

RECURSIVE RegsAuto(_)
\* init_auto: both loops skip the entries with index 0x0000
RegsAuto(slave_pos) ==
    IF slave_pos = <<>> THEN <<>>
    ELSE RegsOf(slave_pos[1], SkipGaps(getRxPdoConfig))
         \o RegsOf(slave_pos[1], SkipGaps(getTxPdoConfig))
         \o RegsAuto(Tail(slave_pos))

RECURSIVE RegsEni(_)
\* init_from_eni: both loops push every entry of the two lists
RegsEni(slave_pos) ==
    IF slave_pos = <<>> THEN <<>>
    ELSE RegsOf(slave_pos[1], getRxPdoConfig)
         \o RegsOf(slave_pos[1], getTxPdoConfig)
         \o RegsEni(Tail(slave_pos))

RECURSIVE Configure(_, _)
\* the slave loop of init_from_eni and of init_auto: a slave becomes an axis
\* when its position is in 0 .. 31, an adapter supports it and
\* ecrt_master_slave_config and configurePdo succeed for it (cfg_ok)
Configure(slaves, cfg_ok) ==
    IF slaves = <<>> THEN <<>>
    ELSE LET s == slaves[1]
             rest == Configure(Tail(slaves), cfg_ok)
         IN  IF /\ s.position >= 0
                /\ s.position <= 31
                /\ findAdapter(<<"Eyou", "Delta", "Yaskawa", "Panasonic">>, s.vendor_id, s.product_code) # 0
                /\ s.position \in cfg_ok
             THEN <<s.position>> \o rest
             ELSE rest

\* results of the calls into the EtherCAT master
MasterAnswers ==
    [pipe : BOOLEAN, master : BOOLEAN, cfg_ok : {{}, {0}, {0, 1}}, reg : BOOLEAN,
     activate : BOOLEAN]

XmlResult(path, file, slaves, slave_pos, regs, passed, ok) ==
    [pc |-> path, file |-> file, slaves |-> slaves, slave_pos |-> slave_pos,
     regs |-> regs, passed |-> passed, ok |-> ok]

\* a SimpleXmlParser constructed on a file, then parseSlaves
XmlParse ==
    /\ xml.pc = "new"
    /\ \E file \in XmlFiles :
          \E slaves \in parseSlaves(file) :
             xml' = XmlResult("parsed", file, slaves, <<>>, <<>>, FALSE, FALSE)
    /\ UNCHANGED <<cmd, ctl, pd, hist, cs, net, host, api, reg, eyou, eni>>

\* the steps init_auto and init_from_eni share once the axes are known;
\* passed says whether regs_ was handed to ecrt_domain_reg_pdo_entry_list
XmlFinish(path, file, slaves, slave_pos, regs, a) ==
    IF slave_pos = <<>>
    THEN XmlResult(path, file, slaves, slave_pos, <<>>, FALSE, FALSE)
    ELSE XmlResult(path, file, slaves, slave_pos, regs, TRUE, a.reg /\ a.activate)

\* MotorApi::init_from_eni
InitFromEni ==
    /\ xml.pc = "new"
    /\ \E file \in XmlFiles, a \in MasterAnswers :
          IF ~XmlIsValid(file)
          THEN xml' = XmlResult("eni", file, <<>>, <<>>, <<>>, FALSE, FALSE)
          ELSE \E slaves \in parseSlaves(file) :
                  IF slaves = <<>> \/ ~a.master
                  THEN xml' = XmlResult("eni", file, slaves, <<>>, <<>>, FALSE, FALSE)
                  ELSE \E slave_pos \in {Configure(slaves, a.cfg_ok)} :
                          xml' = XmlFinish("eni", file, slaves, slave_pos,
                                           RegsEni(slave_pos), a)
    /\ UNCHANGED <<cmd, ctl, pd, hist, cs, net, host, api, reg, eyou, eni>>

\* MotorApi::init_auto: the slaves come from `ethercat slaves -v`, or from
\* the scan of the positions when popen fails
InitAuto ==
    LET \* slaves `ethercat slaves -v` lists
        BusSlaves ==
            {<<>>,
             <<[position |-> 0, vendor_id |-> EyouVendor, product_code |-> EyouProduct]>>,
             <<[position |-> 0, vendor_id |-> EyouVendor, product_code |-> EyouProduct],
               [position |-> 1, vendor_id |-> <<0, 1>>, product_code |-> <<4660, 22136>>]>>,
             <<[position |-> 0, vendor_id |-> <<0, 5>>, product_code |-> <<0, 5>>],
               [position |-> 1, vendor_id |-> EyouVendor, product_code |-> EyouProduct]>>}
        \* without the slave list every position 0 .. 15 is tried with the
        \* identity of each registered adapter, the EYOU adapter first
        FallbackBus ==
            [p \in 1 .. 16 |->
                [position |-> p - 1, vendor_id |-> EyouVendor,
                 product_code |-> EyouProduct]]
    IN
    /\ xml.pc = "new"
    /\ \E listed \in BusSlaves, a \in MasterAnswers :
          \E bus \in {IF a.pipe THEN listed ELSE FallbackBus} :
             IF ~a.master
             THEN xml' = XmlResult("auto", NoFile, <<>>, <<>>, <<>>, FALSE, FALSE)
             ELSE \E slave_pos \in {Configure(bus, a.cfg_ok)} :
                     xml' = XmlFinish("auto", NoFile, bus, slave_pos,
                                      RegsAuto(slave_pos), a)
    /\ UNCHANGED <<cmd, ctl, pd, hist, cs, net, host, api, reg, eyou, eni>>

NextInit == XmlParse \/ InitFromEni \/ InitAuto

SpecInit == InitWide /\ [][NextInit]_vars

(***************************************************************************)
(* The ENI bootstrap of the C library: motor_api_read_eni and              *)
(* motor_api_create.  A file is the list of the <Slave> elements of its     *)
(* <SlaveList> and the list of its <EtherCATInfo> blocks; position -1 is a  *)
(* <Slave> tag without a Position attribute.                                *)
(***************************************************************************)
DefaultVendor == <<1, 5831>>

DefaultProduct == <<62, 1026>>

CSections ==
    [position : {-1, 0, 1}, vendor : {Absent, <<0, 0>>, EyouVendor},
     product : {Absent, EyouProduct}]

CFiles ==
    [open : {TRUE},
     list : {<<>>} \cup {<<a>> : a \in CSections}
            \cup {<<a, b>> : a \in CSections, b \in CSections},
     info : {<<>>} \cup {<<a>> : a \in [position : {-1},
                                         vendor : {Absent, EyouVendor},
                                         product : {Absent, EyouProduct}]}]
    \* a path fopen cannot open
    \cup {[open |-> FALSE, list |-> <<>>, info |-> <<>>]}

\* the ma_eni_slave_t appended when `count` slaves have been parsed
EniSlave(e, count) ==
    [position     |-> IF e.position >= 0 THEN e.position ELSE count,
     vendor_id    |-> IF e.vendor \in {Absent, <<0, 0>>} THEN DefaultVendor
                      ELSE e.vendor,
     product_code |-> IF e.product \in {Absent, <<0, 0>>} THEN DefaultProduct
                      ELSE e.product]

RECURSIVE ReadList(_, _, _)
\* the loop over <SlaveList>, at the k-th "<Slave" match
ReadList(sections, k, slaves) ==
    \* the first "<Slave" the scan of the list finds is the "<SlaveList" tag
    \* itself, which carries no attribute; the element built from it ends at
    \* the first "</Slave>"
    LET SlaveListTag == [position |-> -1, vendor |-> Absent, product |-> Absent]
    IN  IF k > Len(sections) \/ Len(slaves) >= MA_MAX_SLAVES THEN slaves
        ELSE ReadList(sections, k + 1,
                      Append(slaves,
                             EniSlave(IF k = 1 THEN SlaveListTag ELSE sections[k],
                                      Len(slaves))))

RECURSIVE ReadInfo(_, _, _)
\* the loop over the <EtherCATInfo> blocks
ReadInfo(blocks, k, slaves) ==
    IF k > Len(blocks) \/ Len(slaves) >= MA_MAX_SLAVES THEN slaves
    ELSE ReadInfo(blocks, k + 1, Append(slaves, EniSlave(blocks[k], Len(slaves))))

\* motor_api_read_eni; mem_ok says whether malloc of the file buffer succeeds
motor_api_read_eni(file, mem_ok) ==
    IF ~file.open THEN [rc |-> MA_ERR_IO, count |-> 0, slaves |-> <<>>]
    ELSE IF ~mem_ok THEN [rc |-> MA_ERR_RUNTIME, count |-> 0, slaves |-> <<>>]
    ELSE LET slaves == ReadInfo(file.info, 1, ReadList(file.list, 1, <<>>))
         IN  [rc |-> MA_OK, count |-> Len(slaves), slaves |-> slaves]

EniResult(pc, path, file, r, ret, position, master, mem, list, out_handle) ==
    [pc |-> pc, path |-> path, file |-> file, rc |-> r.rc, count |-> r.count,
     slaves |-> r.slaves, ret |-> ret, position |-> position, master |-> master,
     mem |-> mem, list |-> list, out_handle |-> out_handle]

NoRead == [rc |-> MA_OK, count |-> 0, slaves |-> <<>>]

\* a caller of motor_api_read_eni that asks for the slave list
ReadEni ==
    /\ eni.pc = "new"
    /\ \E file \in CFiles, mem_ok \in BOOLEAN :
          \E r \in {motor_api_read_eni(file, mem_ok)} :
             eni' = EniResult("read", TRUE, file, r, r.rc, <<>>, "none", "none",
                              IF r.count > 0 THEN "held" ELSE "none", FALSE)
    /\ UNCHANGED <<cmd, ctl, pd, hist, cs, net, host, api, reg, eyou, xml>>

\* motor_api_create after the ENI step, with cnt slaves in `slaves`; list is
\* "held" when eni_slaves points to the parsed list
CreateTail(path, file, r, slaves, list, fail) ==
    LET position == [k \in 1 .. Len(slaves) |-> slaves[k].position]
        freed == IF list = "held" THEN "freed" ELSE list
    IN  IF fail = "slave_config"
        THEN EniResult("create", path, file, r, MA_ERR_INIT, position,
                       "released", "freed", freed, FALSE)
        ELSE IF fail \in {"config_pdos", "reg_pdo_entry_list"}
        THEN EniResult("create", path, file, r, MA_ERR_CONFIG, position,
                       "released", "freed", freed, FALSE)
        ELSE IF fail \in {"activate", "domain_data"}
        THEN EniResult("create", path, file, r, MA_ERR_INIT, position,
                       "released", "freed", list, FALSE)
        ELSE EniResult("create", path, file, r, MA_OK, position,
                       "held", "held", freed, TRUE)

\* motor_api_create
Create ==
    LET \* the first call inside motor_api_create that fails
        CreateFailures ==
            {"none", "calloc", "request_master", "create_domain", "malloc",
             "slave_config", "config_pdos", "reg_pdo_entry_list", "activate",
             "domain_data"}
        \* the three slaves motor_api_create assumes without an ENI path
        DefaultSlaves ==
            [k \in 1 .. 3 |->
                [position |-> k - 1, vendor_id |-> DefaultVendor,
                 product_code |-> DefaultProduct]]
    IN
    /\ eni.pc = "new"
    /\ \E args_ok \in BOOLEAN, path \in BOOLEAN, file \in CFiles, fail \in CreateFailures :
          /\ ~path => file = [open |-> FALSE, list |-> <<>>, info |-> <<>>]
          /\ eni' =
               IF ~args_ok
               THEN EniResult("create", path, file, NoRead, MA_ERR_PARAM, <<>>,
                              "none", "none", "none", FALSE)
               ELSE IF fail = "calloc"
               THEN EniResult("create", path, file, NoRead, MA_ERR_RUNTIME, <<>>,
                              "none", "none", "none", FALSE)
               ELSE IF fail = "request_master"
               THEN EniResult("create", path, file, NoRead, MA_ERR_INIT, <<>>,
                              "none", "freed", "none", FALSE)
               ELSE IF fail = "create_domain"
               THEN EniResult("create", path, file, NoRead, MA_ERR_INIT, <<>>,
                              "released", "freed", "none", FALSE)
               ELSE IF path
               THEN LET r == motor_api_read_eni(file, fail # "malloc")
                    IN  IF r.rc # MA_OK \/ r.count = 0
                        THEN EniResult("create", path, file, r, MA_ERR_CONFIG, <<>>,
                                       "released", "freed", "none", FALSE)
                        ELSE CreateTail(path, file, r, r.slaves, "held", fail)
               ELSE CreateTail(path, file, NoRead, DefaultSlaves, "none", fail)
    /\ UNCHANGED <<cmd, ctl, pd, hist, cs, net, host, api, reg, eyou, xml>>

NextCreate == ReadEni \/ Create

SpecCreate == InitWide /\ [][NextCreate]_vars

(***************************************************************************)
(* Calls of EyouMotorAdapter::makeControl made over the life of a process, *)
(* for any axis that holds an EYOU adapter.  The function takes no axis    *)
(* and keeps its counters in static locals, so the calls for all axes act  *)
(* on the same three values.  eyou.last and eyou.prev are the two most     *)
(* recent calls with what they returned; eyou.streak counts the calls that *)
(* reached the repeat-reset policy while the status word kept reporting a  *)
(* fault whose code is not 0x08 / 0x09; eyou.run is the number of calls    *)
(* made with the status word of the last call since it was first passed,   *)
(* and eyou.change says that another status word was passed before it.     *)
(***************************************************************************)
EyouCall ==
    LET \* a status word with the fault bit set and a code other than 0x08 / 0x09
        PersistentFault(status) ==
            HasBit(status, 8) /\ (status \div 256) % 256 \notin {8, 9}
    IN
    /\ eyou.st.state_change_delay < MaxDelayCount
    \* status words 0x0000, 0x0008 (fault, code 0), 0x0027 (enabled) and
    \* 0x0808 (following error)
    /\ \E axis \in 0 .. 1, status \in {0, 8, 39, 2056}, run_in \in BOOLEAN :
          \E r \in {EyouMakeControl(eyou.st, status, run_in)} :
             eyou' = [st     |-> r.st,
                      prev   |-> eyou.last,
                      last   |-> [called |-> TRUE, axis |-> axis, status |-> status,
                                  run_in |-> run_in, control |-> r.control,
                                  run_enable |-> r.run_enable, attempt |-> r.attempt],
                      streak |-> IF r.attempt THEN eyou.streak + 1
                                 ELSE IF PersistentFault(status) THEN eyou.streak
                                 ELSE 0,
                      run    |-> IF eyou.last.called /\ status = eyou.last.status
                                 THEN eyou.run + 1 ELSE 1,
                      change |-> IF ~eyou.last.called THEN FALSE
                                 ELSE IF status = eyou.last.status THEN eyou.change
                                 ELSE TRUE,
                      loop   |-> eyou.loop]
    /\ UNCHANGED <<cmd, ctl, pd, hist, cs, net, host, api, reg, xml, eni>>

NextEyou == EyouCall

SpecEyou == InitWide /\ [][NextEyou]_vars

(***************************************************************************)
(* The host loop over two motors that both hold the EYOU adapter: every    *)
(* cycle calls make_control for motor 0, then for motor 1, each with the   *)
(* status word its drive reports and with its own run_enable variable.     *)
(* The drives keep reporting the status words of the first cycle.          *)
(* eyou.loop.n counts the calls made, eyou.loop.control and                *)
(* eyou.loop.run_enable hold what the last call for each motor left.       *)
(***************************************************************************)
EyouLoop ==
    /\ eyou.loop.n < 2 * MaxLoopCycles
    /\ \E s \in (IF eyou.loop.n = 0 THEN [0 .. 1 -> {0, 8, 39, 2056}]
                 ELSE {eyou.loop.status}) :
       \E m \in {eyou.loop.n % 2} :
       \E r \in {EyouMakeControl(eyou.st, s[m], eyou.loop.run_enable[m])} :
          eyou' = [eyou EXCEPT
                     !.st   = r.st,
                     !.prev = eyou.last,
                     !.last = [called |-> TRUE, axis |-> m, status |-> s[m],
                               run_in |-> eyou.loop.run_enable[m],
                               control |-> r.control, run_enable |-> r.run_enable,
                               attempt |-> r.attempt],
                     !.loop = [n          |-> @.n + 1,
                               status     |-> s,
                               control    |-> [@.control EXCEPT ![m] = r.control],
                               run_enable |-> [@.run_enable EXCEPT ![m] = r.run_enable]]]
    /\ UNCHANGED <<cmd, ctl, pd, hist, cs, net, host, api, reg, xml, eni>>

SpecEyouLoop == InitWide /\ [][EyouLoop]_vars

(***************************************************************************)
(* The controller on a bus whose drives follow the CiA-402 power state     *)
(* machine: the status word a drive reports on a tick answers the control  *)
(* word the tick before left in the process image.  A run command is       *)
(* stored once and never withdrawn, and every reading of the clock by an   *)
(* armed barrier finds that time has passed.                               *)
(***************************************************************************)
\* motor_api_set_command(handle, true, dir, step) on a stopped controller
StartCommand ==
    /\ ~cmd.run
    /\ \E a \in {x \in CmdInputs : x[1]} :
          cmd' = set_cmd_locked(a[1], a[2], a[3])
    /\ UNCHANGED <<ctl, pd, hist, cs, net, host, lib>>

TickLive ==
    LET \* Shutdown leads to Ready to switch on, Switch on to Switched on,
        \* Enable operation to Operation enabled
        DriveStatus(cw, status) ==
            CASE cw = 6  -> 33
              [] cw = 7  -> 35
              [] cw = 15 -> 39
              [] OTHER   -> status
    IN
    \E st \in [Axes -> {0, 64}], ap \in [Axes -> PosSet],
       adv \in (IF ~motion_started /\ cmd.run /\ barrier_armed
                THEN {ClockStep, 2 * ClockStep} ELSE {0}) :
        TickStep([i \in Axes |-> IF obs.ticked
                                 THEN DriveStatus(pd_control[i], pd_status[i])
                                 ELSE st[i]],
                 ap, [k \in 0 .. slave_count |-> cmd], adv, 0)

NextLive == StartCommand \/ TickLive

SpecLive == Init /\ [][NextLive]_vars /\ WF_vars(TickLive)

(***************************************************************************)
(* Properties.                                                             *)
(***************************************************************************)
Abs(x) == IF x < 0 THEN -x ELSE x

\* C1: for an axis that is not servo-enabled when the tick begins, the control
\* word left in the process image by the tick is determined by
\* s = status & 0x6F: 0x07 for 0x21, 0x0F for 0x23 and 0x27, 0x06 otherwise.
C1_ControlWordByState ==
    \A i \in Axes :
        (obs.ticked /\ ~obs.pre_servo[i]) =>
            LET s == Mask6F(pd_status[i])
            IN  pd_control[i] = (IF s = 33 THEN 7
                                 ELSE IF s \in {35, 39} THEN 15
                                 ELSE 6)

C1_Witness ==
    /\ obs.ticked
    /\ ~obs.pre_servo[0]
    /\ pd_status[0] = 72
    /\ obs.cw[0] = <<0, 128, 6>>
    /\ pd_control[0] = 6

\* C2: after five ticks of a single-axis controller that read the status words
\* 0x40, 0x40, 0x21, 0x23, 0x27, the control words emitted are 0x06, 0x06,
\* 0x07, 0x0F, 0x0F, the axis is servo-enabled, its warmup counter is 10 and
\* its cached target is the actual position read on the fifth tick.
C2_ColdStart ==
    (scn.on /\ scn.n = Len(ColdStart)) =>
        /\ scn.cw = <<6, 6, 7, 15, 15>>
        /\ servo_enabled[0]
        /\ csp_warmup[0] = 10
        /\ csp_target[0] = pd_actual[0]

C2_Witness ==
    /\ scn.on
    /\ scn.n = Len(ColdStart)
    /\ pd_status[0] = 39
    /\ pd_actual[0] = -1
    /\ pd_target[0] = 0
    /\ csp_target[0] = -1

\* C3: servo_enabled[i] never changes from true to false, and a tick that
\* begins with servo_enabled[i] true writes neither 0x06 nor 0x07 to the
\* control word of axis i.
C3_MonotonicEnable ==
    /\ [](\A i \in Axes :
            (obs.ticked /\ obs.pre_servo[i]) =>
                \A k \in 1 .. Len(obs.cw[i]) : obs.cw[i][k] \notin {6, 7})
    /\ [][\A i \in Axes : servo_enabled[i] => servo_enabled'[i]]_vars

C3_Witness ==
    /\ obs.ticked
    /\ obs.pre_servo[0]
    /\ servo_enabled[0]
    /\ pd_status[0] = 64
    /\ pd_control[0] = 15

\* C4: on a tick that begins with motion_started false and servo_enabled[i]
\* true, every target written for axis i is the actual position read on that
\* tick, whatever the command is, and a tick that begins before motion start
\* advances no target by the command.
C4_HoldAtActual ==
    (obs.ticked /\ ~obs.pre_motion) =>
        \A i \in Axes :
            /\ ~obs.moved[i]
            /\ obs.change[i] = 0
            /\ obs.pre_servo[i] =>
                /\ obs.tgt[i] # <<>>
                /\ \A k \in 1 .. Len(obs.tgt[i]) : obs.tgt[i][k] = pd_actual[i]
                /\ pd_target[i] = pd_actual[i]
                /\ csp_target[i] = pd_actual[i]

C4_Witness ==
    /\ obs.ticked
    /\ ~obs.pre_motion
    /\ ~motion_started
    /\ barrier_armed
    /\ obs.pre_servo[0]
    /\ obs.run
    /\ obs.axis_cmd[0] = [run |-> TRUE, dir |-> 1, step |-> 100000]
    /\ pd_actual[0] = -1
    /\ pd_target[0] = -1

\* C5 as stated: for a tick T at which every axis is seen enabled, with run
\* true from T on, motion starts at the first tick whose time is at least
\* time(T) + delay and at no earlier tick.  mon.prev_all_time is the time of the
\* latest such tick T before the last tick.
C5_AnyEnabledTick ==
    (obs.ticked /\ ~obs.pre_motion /\ obs.run /\ mon.prev_all_time >= 0) =>
        (obs.fire <=> obs.now >= mon.prev_all_time + BarrierDelayNs)

\* C5 amended: when the barrier has armed at a clock reading barrier_start_ns
\* and run is true at a tick, that tick starts motion if and only if its clock
\* reading is at least barrier_start_ns + delay; seen-enabled ticks after the
\* arming tick do not restart the delay.
C5_BarrierTiming ==
    /\ obs.fire => obs.now - barrier_start_ns >= BarrierDelayNs
    /\ (obs.ticked /\ obs.run /\ barrier_armed) =>
            obs.now - barrier_start_ns < BarrierDelayNs
    /\ (obs.fire \/ barrier_armed) => barrier_start_ns <= obs.now

C5_Witness ==
    /\ obs.fire
    /\ ~obs.arming
    /\ motion_started
    /\ obs.now = barrier_start_ns + BarrierDelayNs
    /\ mon.prev_all_time > barrier_start_ns

\* C6: the barrier arms only on a tick whose run flag is true and on which the
\* status word of every axis is 0x27 under the mask 0x6F.
C6_ArmOnlyWhenAllEnabled ==
    (obs.arming \/ (barrier_armed /\ ~obs.pre_armed)) =>
        /\ obs.run
        /\ \A i \in Axes : Mask6F(pd_status[i]) = 39

C6_Witness ==
    /\ slave_count = 2
    /\ obs.arming
    /\ barrier_armed
    /\ ~obs.pre_armed
    /\ ~obs.pre_servo[1]

C8_StepOfClampLimit ==
    \A i \in Axes :
        (obs.ticked /\ obs.moved[i]
            /\ obs.axis_cmd[i] = set_cmd_locked(TRUE, 1, 1000000)) =>
                obs.change[i] = 400000

\* C8 amended: a post-warmup tick that reads the command stored by
\* set_command(true, +1, 1000000) increases the target by 100000, the upper
\* limit of the stored step.
C8_StepOfStoredLimit ==
    \A i \in Axes :
        (obs.ticked /\ obs.moved[i]
            /\ obs.axis_cmd[i] = set_cmd_locked(TRUE, 1, 1000000)) =>
                obs.change[i] = 100000

C8_Witness ==
    /\ obs.ticked
    /\ obs.moved[0]
    /\ obs.axis_cmd[0] = set_cmd_locked(TRUE, 1, 1000000)
    /\ obs.change[0] = 100000
    /\ pd_target[0] = pd_actual[0] + 100000

\* C9: a tick on which a not yet enabled axis reports the fault bit 0x0008 with
\* bit 0 clear writes 0x0000, then 0x0080, then the main control word.
C9_FaultResetPulse ==
    \A i \in Axes :
        (obs.ticked /\ ~obs.pre_servo[i]
            /\ HasBit(pd_status[i], 8) /\ ~HasBit(pd_status[i], 1)) =>
                /\ Len(obs.cw[i]) = 3
                /\ obs.cw[i][1] = 0
                /\ obs.cw[i][2] = 128

\* C10: for a status word of the CiA-402 table the standard adapter's
\* makeControl returns the control word the tick emits for that status word.
C10_AdapterAgreesWithTick ==
    (mc.called /\ ~obs.pre_servo[0]
        /\ Mask6F(mc.status) \in {0, 64, 33, 35, 39}) =>
            mc.control = pd_control[0]

\* C11: once motion_started is true it stays true, and the barrier is not armed
\* while motion_started is true, whatever commands and status words follow.
C11_MotionStartedStable ==
    /\ [](motion_started => ~barrier_armed)
    /\ [][motion_started => (motion_started' /\ ~barrier_armed')]_vars

C11_Witness ==
    /\ motion_started
    /\ obs.ticked
    /\ obs.pre_motion
    /\ obs.run
    /\ obs.all
    /\ ~obs.arming
    /\ ~barrier_armed

\* C12: while the barrier is armed and motion has not started, a step that
\* leaves the run flag false (a stop command, or a tick that reads run false)
\* keeps barrier_armed true and barrier_start_ns unchanged.
C12_StopKeepsBarrierArmed ==
    [][(barrier_armed /\ ~motion_started /\ ~cmd'.run) =>
            (barrier_armed' /\ barrier_start_ns' = barrier_start_ns
                /\ ~motion_started')]_vars

C12_Witness ==
    /\ obs.ticked
    /\ obs.pre_armed
    /\ ~obs.pre_motion
    /\ ~obs.run
    /\ barrier_armed
    /\ barrier_start_ns = ClockStep
    /\ ~motion_started

\* C13 as stated: on a tick after motion start that reads run false the delta
\* of each axis is 0 and the target written is the actual position read on
\* that tick.
C13_StopHoldsAtActual ==
    \A i \in Axes :
        (obs.ticked /\ obs.pre_motion /\ ~obs.axis_cmd[i].run) =>
            /\ obs.delta[i] = 0
            /\ pd_target[i] = pd_actual[i]

\* C13 amended: on a tick after motion start that reads run false the delta of
\* each axis is 0; after warmup the target written is the target of the
\* previous tick, unchanged, and during warmup it is the actual position.
C13_StopFreezesTarget ==
    \A i \in Axes :
        (obs.ticked /\ obs.pre_motion /\ ~obs.axis_cmd[i].run) =>
            /\ obs.delta[i] = 0
            /\ obs.moved[i] => (obs.change[i] = 0 /\ pd_target[i] = csp_target[i])
            /\ ~obs.moved[i] => pd_target[i] = pd_actual[i]

C13_Witness ==
    /\ obs.ticked
    /\ obs.pre_motion
    /\ ~obs.axis_cmd[0].run
    /\ obs.moved[0]
    /\ obs.change[0] = 0
    /\ pd_target[0] = 0
    /\ pd_actual[0] = -1
\* C16: within one tick every axis that reads the command and the barrier
\* block use the same snapshot of the command, also when set_command runs
\* during the tick.
C16_SingleSnapshot ==
    obs.ticked =>
        \A i \in Axes :
            /\ obs.axis_cmd[i].run = obs.run
            /\ \A j \in Axes :
                  /\ obs.axis_cmd[i] = obs.axis_cmd[j]
                  /\ (obs.moved[i] /\ obs.moved[j]) => obs.delta[i] = obs.delta[j]
\* C14: when set_command has returned, the stored step is the argument limited
\* to [1, 100000], the stored direction is the argument if it is -1, 0 or +1
\* and 0 otherwise, and the stored run flag is the argument.
C14_StoredCommandInRange ==
    (cs.called /\ cs.wpc = "idle") =>
        /\ cmd.step \in 1 .. 100000
        /\ cmd.step = (IF cs.wargs[3] < 1 THEN 1
                       ELSE IF cs.wargs[3] > 100000 THEN 100000
                       ELSE cs.wargs[3])
        /\ cmd.dir \in {-1, 0, 1}
        /\ cmd.dir = (IF cs.wargs[2] \in {-1, 0, 1} THEN cs.wargs[2] ELSE 0)
        /\ cmd.run = cs.wargs[1]

C14_Witness ==
    /\ cs.called
    /\ cs.wpc = "idle"
    /\ cs.wargs = <<TRUE, 2, 2147483647>>
    /\ cmd = [run |-> TRUE, dir |-> 0, step |-> 100000]

\* C15: the triple a tick copies under cmd_mutex is a command that was stored
\* completely, the one in place when the tick took the mutex; it never mixes
\* fields of two commands, also when set_cmd_locked runs during the copy.
C15_SnapshotAtomic ==
    (cs.got /\ cs.rpc = "idle") =>
        /\ cs.snap \in cs.full
        /\ Cardinality(cs.full) = 1

C15_Witness ==
    /\ cs.got
    /\ cs.rpc = "idle"
    /\ cs.wpc = "lock"
    /\ cs.snap = [run |-> TRUE, dir |-> 1, step |-> 100000]
    /\ cs.wloc = [run |-> FALSE, dir |-> -1, step |-> 1]
    /\ cmd = cs.snap
\* C17: after activation no thread other than the tick thread reads or writes
\* the process image.
C17_TickThreadSoleAccessor ==
    ~net.pi_other

\* C18: once motor_api_destroy has returned, the HTTP service thread is not
\* running and no thread reads or writes the freed handle or its mutex.
C18_NoThreadAfterDestroy ==
    net.handle = "freed" =>
        /\ net.thread \in {"none", "exited"}
        /\ ~net.uaf

\* C19: when motor_api_stop_http is called while the HTTP service thread is
\* running, the thread eventually exits and the call returns.
C19_StopHttpTerminates ==
    (net.caller = "join") ~> (net.thread = "exited" /\ net.stopped)
\* C20: the SIGINT handler releases nothing, so the master is released only
\* by the cleanup after the loop, and receive_and_process and queue_and_send
\* are never called on a released master.
C20_HandlerOnlyFlipsFlag ==
    /\ ~host.released
    /\ host.master = "released" => host.pc = "done"
\* C21: a tick that begins with servo_enabled[i] true writes the control word
\* 0x000F and the operation mode 8 for axis i, and nothing else to either,
\* before and after motion start and whatever status word the axis reports.
C21_EnabledAxisRunsCsp ==
    \A i \in Axes :
        (obs.ticked /\ obs.pre_servo[i]) =>
            /\ obs.cw[i] # <<>>
            /\ \A k \in 1 .. Len(obs.cw[i]) : obs.cw[i][k] = 15
            /\ obs.mode[i] # <<>>
            /\ \A k \in 1 .. Len(obs.mode[i]) : obs.mode[i][k] = 8
            /\ pd_control[i] = 15
            /\ pd_mode[i] = 8

C21_Witness ==
    /\ obs.ticked
    /\ obs.pre_servo[0]
    /\ obs.pre_motion
    /\ pd_status[0] = 64
    /\ obs.cw[0] = <<15>>
    /\ obs.mode[0] = <<8>>

\* C22 as stated: an axis-keyed MotorApi operation called with an index at or
\* beyond motor_count() does not abort, stores nothing to the process image
\* and returns 0, or the empty string from a string-returning query.
C22_IndexErrorEmptyString ==
    [][(api'.call.op # "none" /\ ~api'.call.valid) =>
          /\ ~api'.call.aborted
          /\ api'.call.stores = 0
          /\ api'.rx = api.rx
          /\ api'.call.ret = 0
          /\ api'.call.str = ""]_vars

\* C22: an axis-keyed MotorApi operation called with an index at or beyond
\* motor_count() does not abort, stores nothing to the process image and
\* returns 0; get_adapter_name and get_motor_info return the text
\* "Invalid motor".
C22_IndexErrorSentinel ==
    [][(api'.call.op # "none" /\ ~api'.call.valid) =>
          /\ ~api'.call.aborted
          /\ api'.call.stores = 0
          /\ api'.rx = api.rx
          /\ api'.call.ret = 0
          /\ api'.call.str =
                (IF api'.call.op \in {"get_adapter_name", "get_motor_info"}
                 THEN "Invalid motor" ELSE "")]_vars

C22_Witness ==
    /\ api.stage = "init"
    /\ api.count = 1
    /\ api.pd_ok
    /\ api.rx[0].control = 15
    /\ api.tx[0].status = 39
    /\ api.call.op = "reset"
    /\ api.call.motor = 1
    /\ ~api.call.valid
    /\ api.call.stores = 0
    /\ api.rx[1].control = 0

\* the registry with every repeated registration of a class removed
RECURSIVE FirstOfEach(_)
FirstOfEach(adapters) ==
    IF adapters = <<>> THEN <<>>
    ELSE LET front == FirstOfEach(SubSeq(adapters, 1, Len(adapters) - 1))
             last  == adapters[Len(adapters)]
         IN  IF \E k \in 1 .. Len(front) : front[k] = last THEN front
             ELSE Append(front, last)

\* indices of the registered adapters that support the pair of the last lookup
RegHits(adapters) ==
    {k \in 1 .. Len(adapters) :
        SupportsMotor(adapters[k], reg.q.vendor_id, reg.q.product_code)}

\* C23: findAdapter returns the earliest-registered adapter that supports the
\* pair and nullptr when none does; (0x1097, 0x2406) resolves to the EYOU
\* adapter and (0x3, 0x11223344) to the Panasonic adapter when one is
\* registered; the class found is the one found in the registry without its
\* duplicate registrations.
C23_FirstMatchWins ==
    reg.q.called =>
        LET hits  == RegHits(reg.adapters)
            once  == FirstOfEach(reg.adapters)
            ohits == RegHits(once)
        IN  /\ hits = {} => reg.q.found = 0
            /\ hits # {} => /\ reg.q.found \in hits
                            /\ \A j \in hits : reg.q.found <= j
            /\ (hits # {} /\ reg.q.vendor_id = <<0, 4247>> /\ reg.q.product_code = <<0, 9222>>)
                  => reg.adapters[reg.q.found] = "Eyou"
            /\ (hits # {} /\ reg.q.vendor_id = <<0, 3>> /\ reg.q.product_code = <<4386, 13124>>)
                  => reg.adapters[reg.q.found] = "Panasonic"
            /\ (reg.q.found = 0) = (ohits = {})
            /\ reg.q.found # 0 =>
                  \E f \in ohits : /\ \A j \in ohits : f <= j
                                   /\ once[f] = reg.adapters[reg.q.found]

C23_Witness ==
    /\ reg.adapters = <<"Eyou", "Delta", "Yaskawa", "Panasonic",
                        "Eyou", "Delta", "Yaskawa", "Panasonic">>
    /\ reg.q.called
    /\ reg.q.vendor_id = <<0, 3>>
    /\ reg.q.product_code = <<4386, 13124>>
    /\ reg.q.found = 4

\* C24: the registration list handed to ecrt_domain_reg_pdo_entry_list holds
\* no PDO entry whose object index is 0, after init_auto and after
\* init_from_eni.
C24_NoGapRegistered ==
    xml.passed => \A k \in 1 .. Len(xml.regs) : xml.regs[k].index # 0

\* C25: after motor_api_create has returned MA_OK the bus positions of the
\* axis slots are pairwise distinct.
C25_PositionsDistinct ==
    (eni.pc = "create" /\ eni.ret = MA_OK) =>
        \A i, j \in 1 .. Len(eni.position) :
            i # j => eni.position[i] # eni.position[j]

\* C26: every slave the ENI parser returns has a position, a vendor id and a
\* product code, neither id is zero, and a section that does not hold an id
\* is kept and gets the default 0x000116c7 or 0x003e0402.
C26_DefaultsSupplied ==
    xml.pc = "parsed" =>
        /\ \A k \in 1 .. Len(xml.slaves) :
              /\ xml.slaves[k].vendor_id # <<0, 0>>
              /\ xml.slaves[k].product_code # <<0, 0>>
        /\ (\A k \in 1 .. Len(xml.file.sections) :
               /\ xml.file.sections[k].vendor # <<0, 0>>
               /\ xml.file.sections[k].product # <<0, 0>>)
              => /\ Len(xml.slaves) = Len(xml.file.sections)
                 /\ \A k \in 1 .. Len(xml.file.sections) :
                       /\ xml.slaves[k].vendor_id =
                             (IF xml.file.sections[k].vendor = Absent
                              THEN DefaultVendor ELSE xml.file.sections[k].vendor)
                       /\ xml.slaves[k].product_code =
                             (IF xml.file.sections[k].product = Absent
                              THEN DefaultProduct ELSE xml.file.sections[k].product)

\* C27: the parser and motor_api_create both return MA_ERR_IO for a file that
\* cannot be opened and MA_ERR_CONFIG for a file from which no slave is
\* parsed.
C27_ErrorClasses ==
    (eni.pc \in {"read", "create"} /\ eni.path /\ eni.rc \in {MA_OK, MA_ERR_IO}
        /\ (eni.pc = "create" => eni.ret \notin {MA_ERR_PARAM, MA_ERR_RUNTIME, MA_ERR_INIT}))
    => /\ ~eni.file.open => eni.ret = MA_ERR_IO
       /\ (eni.file.open /\ eni.count = 0) => eni.ret = MA_ERR_CONFIG

\* C28: when motor_api_create returns an error the master is released, the
\* handle memory and the parsed slave list are freed, and no handle is stored
\* for the caller.
C28_FailureReleasesAll ==
    (eni.pc = "create" /\ eni.ret # MA_OK) =>
        /\ eni.master \in {"none", "released"}
        /\ eni.mem \in {"none", "freed"}
        /\ eni.list \in {"none", "freed"}
        /\ ~eni.out_handle

\* C29: two consecutive calls of the EYOU adapter's makeControl with the same
\* status word and the same run_enable on entry return the same control word
\* and leave the same run_enable, whatever was called before and whichever
\* axes the calls were made for.
C29_MakeControlDeterministic ==
    (eyou.last.called /\ eyou.prev.called
        /\ eyou.last.status = eyou.prev.status
        /\ eyou.last.run_in = eyou.prev.run_in)
    => /\ eyou.last.control = eyou.prev.control
       /\ eyou.last.run_enable = eyou.prev.run_enable

\* C30: while a fault with a code other than 0x08 / 0x09 persists, each of
\* the first 10 reset attempts of the EYOU adapter returns 0x0080 with
\* run_enable false and the 11th returns 0x0006 with run_enable true.
C30_RepeatResetPolicy ==
    (eyou.last.called /\ eyou.last.attempt) =>
        /\ eyou.streak \in 1 .. 10 =>
              (eyou.last.control = 128 /\ ~eyou.last.run_enable)
        /\ eyou.streak = 11 =>
              (eyou.last.control = 6 /\ eyou.last.run_enable)

\* C31: on every tick that begins with axis i enabled and csp_warmup[i] > 0 the
\* targets written for the axis are the actual position and csp_warmup[i]
\* ends one lower; csp_warmup[i] is within 0 .. 10, and an enabled axis whose
\* counter is 0 keeps it at 0.
C31_WarmupCountdown ==
    \A i \in Axes :
        /\ csp_warmup[i] \in 0 .. WarmupCycles
        /\ (obs.ticked /\ obs.pre_servo[i] /\ obs.pre_warmup[i] > 0) =>
              /\ obs.tgt[i] # <<>>
              /\ \A k \in 1 .. Len(obs.tgt[i]) : obs.tgt[i][k] = pd_actual[i]
              /\ csp_warmup[i] = obs.pre_warmup[i] - 1
        /\ (obs.ticked /\ obs.pre_servo[i] /\ obs.pre_warmup[i] = 0) =>
              csp_warmup[i] = 0

\* C32: a tick calls application_time, receive, process, sync_slave_clocks,
\* then runs the axis loop, then the barrier block, then calls queue and
\* send; every write to the process image comes after process and before
\* queue, and for each axis no write of 0x0000 or 0x0080 to the control word
\* comes after the main control word of the axis loop.
C32_TickOrder ==
    obs.ticked =>
        LET ops == obs.ops
            n   == Len(ops)
            BusOps == SelectSeq(ops, LAMBDA o : o.by = "bus")
            W   == {k \in 1 .. n : ops[k].by # "bus"}
            At(name) == CHOOSE k \in 1 .. n : ops[k].by = "bus" /\ ops[k].op = name
        IN  /\ [k \in 1 .. Len(BusOps) |-> BusOps[k].op]
                  = <<"application_time", "receive", "process",
                      "sync_slave_clocks", "queue", "send">>
            /\ \A k \in W : At("sync_slave_clocks") < k /\ k < At("queue")
            /\ \A k \in W, j \in W :
                  (ops[k].by = "loop" /\ ops[j].by = "barrier") => k < j
            /\ \A i \in Axes :
                  /\ \E k \in W : ops[k].op = "control" /\ ops[k].axis = i
                                  /\ ops[k].val \in {6, 7, 15}
                  /\ \A k \in W, j \in W :
                        (/\ ops[k].op = "control" /\ ops[k].axis = i
                         /\ ops[k].val \in {0, 128}
                         /\ ops[j].op = "control" /\ ops[j].axis = i
                         /\ ops[j].val \in {6, 7, 15})
                        => k < j

\* a tick on which the barrier fires: the writes of the axis loop are
\* followed by the three writes per axis of the barrier block
C32_Witness ==
    /\ obs.ticked
    /\ obs.fire
    /\ \E k \in 1 .. Len(obs.ops) : obs.ops[k].by = "barrier"
    /\ Len(obs.ops) = 6 + 6 * slave_count

\* C33: once a status word different from the one before has been passed to
\* the EYOU adapter's makeControl, the call that passes it first and the next
\* 4 calls with the same word return 0x0000 and leave run_enable alone, and
\* every further call with that word returns the control word of its state:
\* 0x0006 for 0x0000, 0x0002 for 0x0027 (bit 5 set with ready and switched
\* on: the quick-stop handling), 0x0080 for the following-error fault 0x0808,
\* and 0x0080 or the forced 0x0006 for the fault 0x0008.
C33_DampingDelay ==
    (eyou.last.called /\ eyou.change) =>
        /\ eyou.run <= 5 =>
              /\ eyou.last.control = 0
              /\ eyou.last.run_enable = eyou.last.run_in
        /\ eyou.run > 5 =>
              eyou.last.control \in
                  (CASE eyou.last.status = 0    -> {6}
                     [] eyou.last.status = 39   -> {2}
                     [] eyou.last.status = 2056 -> {128}
                     [] eyou.last.status = 8    -> {128, 6}
                     [] OTHER                   -> {})

\* the sixth call with status 0x0000 after a change from 0x0027
C33_Witness ==
    /\ eyou.last.called
    /\ eyou.change
    /\ eyou.run = 6
    /\ eyou.last.status = 0
    /\ eyou.last.control = 6
    /\ eyou.prev.control = 0

\* C34: make_control answers the statuses 0x40, 0x21, 0x23 and 0x27 with
\* 0x06, 0x07, 0x0F and 0x0F, and the host loop writes an advanced target
\* only for a motor whose status word of this iteration is in Operation
\* enabled.
C34_RunEnableOnlyWhenEnabled ==
    host.pc = "send" =>
        \A k \in 0 .. 1 :
            /\ (k < host.motors /\ k < host.count) =>
                  /\ host.status[k] = 64 => host.control[k] = 6
                  /\ host.status[k] = 33 => host.control[k] = 7
                  /\ host.status[k] = 35 => host.control[k] = 15
                  /\ host.status[k] = 39 => host.control[k] = 15
            /\ host.advanced[k] => Mask6F(host.status[k]) = 39

\* C35: the tick on which the target of an axis is advanced by a non-zero
\* command delta for the first time is the same tick for every axis of the
\* controller, also when a command is stored during the tick.
C35_AxesStartTogether ==
    obs.ticked => \A i \in Axes, j \in Axes : obs.first[i] = obs.first[j]

\* C36: on a bus whose drives follow the power state machine, with the run
\* flag set and ticks and time going on, the barrier is eventually armed and
\* eventually motion_started is true with every axis servo-enabled.
C36_EventuallyMoving ==
    /\ (cmd.run /\ ~motion_started) ~> barrier_armed
    /\ cmd.run ~> (motion_started /\ \A i \in Axes : servo_enabled[i])

\* two axes brought from Switch on disabled to Operation enabled, the
\* barrier fired one second after it was armed
C36_Witness ==
    /\ slave_count = 2
    /\ cmd.run
    /\ motion_started
    /\ obs.fire
    /\ obs.now - barrier_start_ns >= BarrierDelayNs
    /\ \A i \in Axes : servo_enabled[i] /\ pd_status[i] = 39

\* C37: the tick on which motion_started becomes true read a status word
\* in Operation enabled (status & 0x6F = 0x27) from every axis.
C37_FireOnlyAllEnabled ==
    (obs.ticked /\ obs.fire) =>
        /\ motion_started
        /\ \A i \in Axes : Mask6F(pd_status[i]) = 39

\* C38: at the end of a tick an axis that was not servo-enabled when the
\* tick began has in the process image, when the domain is queued, the main
\* control word of the status table (0x06, 0x07 or 0x0F), never the 0x0000
\* or 0x0080 of the fault-reset pulse.
C38_QueuedControlIsMain ==
    obs.ticked =>
        \A i \in Axes :
            ~obs.pre_servo[i] =>
                LET ops == obs.ops
                    q   == CHOOSE k \in 1 .. Len(ops) : ops[k].op = "queue"
                    C   == {k \in 1 .. q : ops[k].op = "control" /\ ops[k].axis = i}
                    last == CHOOSE k \in C : \A j \in C : j <= k
                IN  /\ C # {}
                    /\ ops[last].val = ControlFor(pd_status[i])
                    /\ ops[last].val \in {6, 7, 15}
                    /\ pd_control[i] = ops[last].val
                    /\ pd_control[i] \notin {0, 128}

\* a tick that pulsed 0x0000, 0x0080 on a not yet enabled axis reporting
\* 0x0040 and left 0x06 in the process image
C38_Witness ==
    /\ obs.ticked
    /\ \E i \in Axes :
          /\ ~obs.pre_servo[i]
          /\ pd_status[i] = 64
          /\ obs.cw[i] = <<0, 128, 6>>
          /\ pd_control[i] = 6

\* C39: in a host loop over two EYOU axes whose drives report constant,
\* different status words, the 6th and every later call made for an axis
\* returns the non-zero control word of that axis's state (0x0006 for
\* 0x0000, 0x0002 for 0x0027, 0x0080 for 0x0808, 0x0080 or the forced
\* 0x0006 for 0x0008).
C39_AxesIndependent ==
    (eyou.loop.n > 0 /\ eyou.loop.status[0] # eyou.loop.status[1]) =>
        \A m \in 0 .. 1 :
            LET own == (eyou.loop.n + 1 - m) \div 2
                s   == eyou.loop.status[m]
            IN  own > StateChangeDelay =>
                    /\ eyou.loop.control[m] # 0
                    /\ eyou.loop.control[m] \in
                          (CASE s = 0    -> {6}
                             [] s = 39   -> {2}
                             [] s = 2056 -> {128}
                             [] OTHER    -> {128, 6})

\* C40: whenever barrier_armed or motion_started is true every axis is
\* servo-enabled, and barrier_armed and motion_started are never both true.
C40_BarrierImpliesEnabled ==
    /\ (barrier_armed \/ motion_started) => \A i \in Axes : servo_enabled[i]
    /\ ~(barrier_armed /\ motion_started)

\* two axes after the barrier has fired: motion started, barrier disarmed
C40_Witness ==
    /\ slave_count = 2
    /\ motion_started
    /\ ~barrier_armed
    /\ obs.fire
    /\ \A i \in Axes : servo_enabled[i]

====
